---- MODULE Spec2Model ----
(***************************************************************************)
(* Model of the card reward-scoring and spend-mix engine of the Swipe      *)
(* Coach backend (server/services/scoring.py, rewards.py, spend.py and the *)
(* earn_percent_for_product helper of server/app.py), and of the routes    *)
(* that call score_catalog (routes/recommendations.py, /rewards/compare).  *)
(* Spec runs one call at a time; SharedSpec runs two callers concurrently  *)
(* on shared inputs.  The request handlers that write MongoDB have their   *)
(* own specifications over the collections in database: MandateSpec and    *)
(* ApplicationSpec run requests one after another, ExecuteSpec, BudgetSpec *)
(* and UserSpec interleave the database steps of two request threads.      *)
(*                                                                         *)
(* Encoding.                                                               *)
(*  - A Python float is an exact rational <<n, d>> in lowest terms with    *)
(*    d >= 1.  IEEE-754 representation error is not modelled; round(x, 2)  *)
(*    is modelled by what it does (rounding to a multiple of 1/100, ties   *)
(*    to even).                                                            *)
(*  - A numeric field that is None or missing is NoneNum == <<0, 0>>.      *)
(*  - An optional integer or an optional document is a sequence of length  *)
(*    0 (None) or 1.                                                       *)
(*  - A Python dict is the sequence of its items in insertion order, each  *)
(*    item a record [key, value]; keys are unique.                         *)
(*  - A missing or empty string is "".                                     *)
(***************************************************************************)
EXTENDS Integers, Sequences, FiniteSets, TLC

\* pc: the function being run ("idle" between calls; "<function>_raised" when
\* the call ended in an exception); args: its arguments; locals: its local
\* variables at the return statement; result: its value; database: the
\* MongoDB collections the request handlers read and write, and the outbox
\* of emails sent.
VARIABLES pc, args, locals, result, database

vars == <<pc, args, locals, result, database>>

(***************************************************************************)
(* Float arithmetic as exact rationals.                                    *)
(***************************************************************************)
Abs(x) == IF x < 0 THEN -x ELSE x

RECURSIVE GCD(_, _)
GCD(a, b) == IF b = 0 THEN a ELSE GCD(b, a % b)

Rat(n, d) ==
    LET g == GCD(Abs(n), d) IN <<n \div g, d \div g>>

NoneNum == <<0, 0>>
Zero == <<0, 1>>
One == <<1, 1>>
Int2Rat(i) == <<i, 1>>

RAdd(a, b) == Rat(a[1] * b[2] + b[1] * a[2], a[2] * b[2])
RSub(a, b) == Rat(a[1] * b[2] - b[1] * a[2], a[2] * b[2])
RMul(a, b) == Rat(a[1] * b[1], a[2] * b[2])
RDiv(a, b) ==
    IF b[1] > 0 THEN Rat(a[1] * b[2], a[2] * b[1])
    ELSE Rat(-(a[1] * b[2]), a[2] * (-b[1]))
RLe(a, b) == a[1] * b[2] <= b[1] * a[2]
RLt(a, b) == a[1] * b[2] < b[1] * a[2]
\* Python's min(a, b) and max(a, b): the first argument wins a tie.
RMin(a, b) == IF RLt(b, a) THEN b ELSE a
RMax(a, b) == IF RLt(a, b) THEN b ELSE a

\* round(x, 2): the nearest multiple of 1/100, ties to the even one.
Round2(x) ==
    LET scaled == 100 * x[1]
        q == scaled \div x[2]
        r == scaled - q * x[2]
        cents == IF 2 * r < x[2] THEN q
                 ELSE IF 2 * r > x[2] THEN q + 1
                 ELSE IF q % 2 = 0 THEN q ELSE q + 1
    IN Rat(cents, 100)

\* float(x or 0.0): None and 0 both give 0.0.
FloatOrZero(x) == IF x = NoneNum THEN Zero ELSE x

\* dict.get(key, default) on a dict kept as its item sequence.
RECURSIVE DictGet(_, _, _)
DictGet(d, key, default) ==
    IF d = <<>> THEN default
    ELSE IF Head(d).key = key THEN Head(d).value
    ELSE DictGet(Tail(d), key, default)

RECURSIVE RSum(_)
RSum(s) == IF s = <<>> THEN Zero ELSE RAdd(Head(s), RSum(Tail(s)))

(***************************************************************************)
(* services/scoring.py                                                     *)
(***************************************************************************)
MonthsPerYear == 12
DaysPerMonth == 30

\* A field value float() rejects with ValueError or TypeError, such as "3%".
Malformed == <<1, 0>>

\* _format_rewards raises when a rule that has a category and a rate carries
\* a rate float() rejects (scoring.py:17 is outside any try).
FormatRewardsRaises(rewards) ==
    \E i \in 1..Len(rewards) :
        rewards[i].category # "" /\ rewards[i].rate = Malformed

\* _format_rewards: rules without a category or a rate are dropped; the cap
\* is kept when present.
FormatRewards(rewards) ==
    SelectSeq(rewards, LAMBDA reward: reward.category # "" /\ reward.rate # NoneNum)

\* _format_welcome_offer: the offer's non-None fields, or None when the offer
\* is missing or has none.
FormatWelcomeOffer(offer) ==
    IF offer = <<>> THEN <<>>
    ELSE IF /\ offer[1].bonus_value_usd = NoneNum
            /\ offer[1].min_spend = NoneNum
            /\ offer[1].window_days = <<>>
         THEN <<>>
    ELSE offer

\* Variant: the difference is not floored at 0.
BonusRate_Unfloored(rate, base_rate) == RSub(rate, base_rate)

\* bonus_rate = max(rate - base_rate, 0.0)
BonusRate(rate, base_rate) == RMax(RSub(rate, base_rate), Zero)

\* Variant: the cap is ignored and the whole category spend earns the bonus.
EligibleSpend_Uncapped(category_spend, cap) == category_spend

\* eligible_spend = min(category_spend, cap) if the rule has a cap
EligibleSpend(category_spend, cap) ==
    IF cap # NoneNum THEN RMin(category_spend, cap) ELSE category_spend

\* The loop body of scoring.py:62-81 for one rule: its local values.
BonusRow(reward, base_rate, category_mix, monthly_total) ==
    LET category_share == DictGet(category_mix, reward.category, Zero)
        category_spend == RMul(monthly_total, category_share)
        eligible_spend == EligibleSpend(category_spend, reward.cap_monthly)
    IN [category |-> reward.category,
        rate |-> reward.rate,
        cap |-> reward.cap_monthly,
        category_spend |-> category_spend,
        eligible_spend |-> eligible_spend,
        bonus_amount |-> RMul(BonusRate(reward.rate, base_rate), eligible_spend)]

\* The dict appended to bonus_details for one rule.
BonusDetail(row) ==
    [category |-> row.category,
     rate |-> row.rate,
     cap_monthly |-> row.cap,
     eligible_spend_monthly |-> Round2(row.eligible_spend),
     monthly_amount |-> Round2(row.bonus_amount),
     annual_amount |-> Round2(RMul(row.bonus_amount, Int2Rat(MonthsPerYear)))]

\* monthly_reward = base_reward_monthly + bonus_total_monthly
MonthlyReward(base_reward_monthly, bonus_total_monthly) ==
    RAdd(base_reward_monthly, bonus_total_monthly)

\* Variant: a window of 0 is replaced by 30 days.
OfferWindow_DefaultMonth(welcome_offer, window_days) ==
    IF welcome_offer[1].window_days # <<>> /\ welcome_offer[1].window_days[1] # 0
    THEN welcome_offer[1].window_days[1]
    ELSE IF window_days # 0 THEN window_days ELSE DaysPerMonth

\* offer_window = int(welcome_offer.get("window_days") or window_days or 0)
OfferWindow(welcome_offer, window_days) ==
    IF welcome_offer[1].window_days # <<>> /\ welcome_offer[1].window_days[1] # 0
    THEN welcome_offer[1].window_days[1]
    ELSE window_days

\* Variant: the progress is not clamped at 1.
WelcomeValue_Unclamped(welcome_offer, monthly_total, window_days) ==
    IF welcome_offer = <<>> THEN Zero
    ELSE LET bonus_value == FloatOrZero(welcome_offer[1].bonus_value_usd)
             min_spend == FloatOrZero(welcome_offer[1].min_spend)
             offer_window == OfferWindow(welcome_offer, window_days)
         IN IF RLt(Zero, bonus_value)
            THEN IF RLt(Zero, min_spend) /\ RLt(Zero, monthly_total) /\ offer_window > 0
                 THEN LET spend_available ==
                              RMul(monthly_total, Rat(offer_window, DaysPerMonth))
                      IN RMul(bonus_value, RDiv(spend_available, min_spend))
                 ELSE bonus_value
            ELSE Zero

\* welcome_value as computed at scoring.py:87-98
WelcomeValue(welcome_offer, monthly_total, window_days) ==
    IF welcome_offer = <<>> THEN Zero
    ELSE LET bonus_value == FloatOrZero(welcome_offer[1].bonus_value_usd)
             min_spend == FloatOrZero(welcome_offer[1].min_spend)
             offer_window == OfferWindow(welcome_offer, window_days)
         IN IF RLt(Zero, bonus_value)
            THEN IF RLt(Zero, min_spend) /\ RLt(Zero, monthly_total) /\ offer_window > 0
                 THEN LET spend_available ==
                              RMul(monthly_total, Rat(offer_window, DaysPerMonth))
                          progress == RMin(RDiv(spend_available, min_spend), One)
                      IN RMul(bonus_value, progress)
                 ELSE bonus_value
            ELSE Zero

\* Variant: the welcome value is added before the yearly projection.
AnnualReward_WelcomeMonthly(monthly_reward, welcome_value) ==
    RMul(RAdd(monthly_reward, welcome_value), Int2Rat(MonthsPerYear))

\* Variant: the welcome value is added a second time.
AnnualReward_WelcomeTwice(monthly_reward, welcome_value) ==
    RAdd(RAdd(RMul(monthly_reward, Int2Rat(MonthsPerYear)), welcome_value),
         welcome_value)

\* annual_reward = monthly_reward * 12, then annual_reward += welcome_value
AnnualReward(monthly_reward, welcome_value) ==
    RAdd(RMul(monthly_reward, Int2Rat(MonthsPerYear)), welcome_value)

\* net_value = annual_reward - annual_fee
NetValue(annual_reward, annual_fee) == RSub(annual_reward, annual_fee)

\* format(x, ".<p>f") for x >= 0: the number of units of 1/scale nearest to x
\* (scale 1 for ".0f", 10 for ".1f"), ties to the even one; the text is that
\* number written in decimal.
Fixed(x, scale) ==
    LET scaled == scale * x[1]
        q == scaled \div x[2]
        r == scaled - q * x[2]
    IN IF 2 * r < x[2] THEN q
       ELSE IF 2 * r > x[2] THEN q + 1
       ELSE IF q % 2 = 0 THEN q ELSE q + 1

\* sorted(bonus_details, key=monthly_amount, reverse=True): stable.
RECURSIVE InsertByMonthlyAmount(_, _)
InsertByMonthlyAmount(sorted, x) ==
    IF sorted = <<>> THEN <<x>>
    ELSE IF RLt(Head(sorted).monthly_amount, x.monthly_amount) THEN <<x>> \o sorted
    ELSE <<Head(sorted)>> \o InsertByMonthlyAmount(Tail(sorted), x)

RECURSIVE SortByMonthlyAmountDesc(_)
SortByMonthlyAmountDesc(bonus_details) ==
    IF bonus_details = <<>> THEN <<>>
    ELSE InsertByMonthlyAmount(
             SortByMonthlyAmountDesc(SubSeq(bonus_details, 1, Len(bonus_details) - 1)),
             bonus_details[Len(bonus_details)])

\* A highlight string, kept as its kind and the texts it interpolates:
\*   bonus: "<rate>% back on <category> up to $<amount>/mo"
\*   intro: "Intro bonus worth ~$<amount> if you spend <spend> in <window> days"
\*   base:  "<rate>% back on about $<amount> in monthly spend"
\* rate is in tenths of a percent, amount in whole dollars; spend is <<>> for
\* "the required amount".
Highlight(kind, category, rate, amount, spend, window) ==
    [kind |-> kind, category |-> category, rate |-> rate, amount |-> amount,
     spend |-> spend, window |-> window]

\* scoring.py:107-112, for one entry of the sorted bonus details
BonusHighlight(bonus) ==
    Highlight("bonus", bonus.category, Fixed(RMul(bonus.rate, Int2Rat(100)), 10),
              Fixed(bonus.eligible_spend_monthly, 1), <<>>, <<>>)

\* scoring.py:113-119
IntroHighlights(welcome_offer, welcome_value, window_days) ==
    IF RLt(Zero, welcome_value) /\ welcome_offer # <<>>
    THEN LET offer_window == OfferWindow(welcome_offer, window_days)
             min_spend == welcome_offer[1].min_spend
             spend_text == IF min_spend # NoneNum /\ min_spend # Zero
                           THEN <<Fixed(min_spend, 1)>> ELSE <<>>
         IN <<Highlight("intro", "", 0, Fixed(welcome_value, 1), spend_text,
                        <<offer_window>>)>>
    ELSE <<>>

\* Variant: the fallback looks only at the bonus highlights.
BaseHighlights_NoBonusOnly(highlights, base_rate, monthly_total) ==
    IF /\ \A i \in 1..Len(highlights) : highlights[i].kind # "bonus"
       /\ RLt(Zero, base_rate) /\ RLt(Zero, monthly_total)
    THEN <<Highlight("base", "", Fixed(RMul(base_rate, Int2Rat(100)), 10),
                     Fixed(monthly_total, 1), <<>>, <<>>)>>
    ELSE <<>>

\* scoring.py:120-123: the fallback when nothing was appended so far
BaseHighlights(highlights, base_rate, monthly_total) ==
    IF highlights = <<>> /\ RLt(Zero, base_rate) /\ RLt(Zero, monthly_total)
    THEN <<Highlight("base", "", Fixed(RMul(base_rate, Int2Rat(100)), 10),
                     Fixed(monthly_total, 1), <<>>, <<>>)>>
    ELSE <<>>

\* highlights as built at scoring.py:106-123
Highlights(sorted_bonuses, welcome_offer, welcome_value, base_rate, monthly_total, window_days) ==
    LET positive == SelectSeq(sorted_bonuses,
                              LAMBDA bonus: RLt(Zero, bonus.monthly_amount))
        bonuses == [i \in 1..Len(positive) |-> BonusHighlight(positive[i])]
        appended == bonuses \o IntroHighlights(welcome_offer, welcome_value, window_days)
    IN appended \o BaseHighlights(appended, base_rate, monthly_total)

\* The local variables of score_card when it reaches its return statement.
ScoreCardLocals(card, category_mix, monthly_total, window_days) ==
    LET base_rate == FloatOrZero(card.base_cashback)
        base_reward_monthly == RMul(base_rate, monthly_total)
        rewards == FormatRewards(card.rewards)
        bonus_rows == [i \in 1..Len(rewards) |->
                          BonusRow(rewards[i], base_rate, category_mix, monthly_total)]
        bonus_total_monthly ==
            RSum([i \in 1..Len(bonus_rows) |-> bonus_rows[i].bonus_amount])
        monthly_reward == MonthlyReward(base_reward_monthly, bonus_total_monthly)
        welcome_offer == FormatWelcomeOffer(card.welcome_offer)
        welcome_value == WelcomeValue(welcome_offer, monthly_total, window_days)
        annual_reward == AnnualReward(monthly_reward, welcome_value)
        annual_fee == FloatOrZero(card.annual_fee)
        sorted_bonuses ==
            SortByMonthlyAmountDesc([i \in 1..Len(bonus_rows) |-> BonusDetail(bonus_rows[i])])
    IN [base_rate |-> base_rate,
        base_reward_monthly |-> base_reward_monthly,
        rewards |-> rewards,
        bonus_rows |-> bonus_rows,
        bonus_total_monthly |-> bonus_total_monthly,
        monthly_reward |-> monthly_reward,
        welcome_offer |-> welcome_offer,
        welcome_value |-> welcome_value,
        annual_reward |-> annual_reward,
        annual_fee |-> annual_fee,
        net_value |-> NetValue(annual_reward, annual_fee),
        sorted_bonuses |-> sorted_bonuses,
        highlights |-> Highlights(sorted_bonuses, welcome_offer, welcome_value,
                                  base_rate, monthly_total, window_days)]

\* The dict score_card returns, built from its locals (scoring.py:125-158).
\* The identity fields other than slug are not part of it here.
ScoreCardReturn(card, monthly_total, l) ==
    [slug |-> card.slug,
     base_cashback |-> l.base_rate,
     annual_fee |-> l.annual_fee,
     annual_reward |-> Round2(l.annual_reward),
     monthly_reward |-> Round2(l.monthly_reward),
     net |-> Round2(l.net_value),
     active |-> card.active,
     rewards |-> l.rewards,
     welcome_offer |-> l.welcome_offer,
     breakdown |->
         [monthly_spend |-> Round2(monthly_total),
          base |-> [rate |-> l.base_rate,
                    monthly_amount |-> Round2(l.base_reward_monthly),
                    annual_amount |->
                        Round2(RMul(l.base_reward_monthly, Int2Rat(MonthsPerYear)))],
          bonuses |-> [i \in 1..Len(l.bonus_rows) |-> BonusDetail(l.bonus_rows[i])],
          welcome |-> IF RLt(Zero, l.welcome_value)
                      THEN <<[value |-> Round2(l.welcome_value),
                              min_spend |-> l.welcome_offer[1].min_spend,
                              window_days |-> l.welcome_offer[1].window_days]>>
                      ELSE <<>>],
     highlights |-> l.highlights]

\* score_card raises instead of returning: float() of base_cashback, of a
\* rule's rate or of annual_fee fails.
ScoreCardRaises(card) ==
    \/ card.base_cashback = Malformed
    \/ FormatRewardsRaises(card.rewards)
    \/ card.annual_fee = Malformed

ScoreCard(card, category_mix, monthly_total, window_days) ==
    ScoreCardReturn(card, monthly_total,
                    ScoreCardLocals(card, category_mix, monthly_total, window_days))

\* list.sort(key=net, reverse=True): stable, so entries with equal net keep
\* their order.  InsertByNet puts x behind every entry whose net is >= x.net.
\* Variant: ascending order.
RECURSIVE InsertByNet_Ascending(_, _)
InsertByNet_Ascending(sorted, x) ==
    IF sorted = <<>> THEN <<x>>
    ELSE IF RLt(x.net, Head(sorted).net) THEN <<x>> \o sorted
    ELSE <<Head(sorted)>> \o InsertByNet_Ascending(Tail(sorted), x)

\* Variant: descending but not stable, a later entry overtakes its ties.
RECURSIVE InsertByNet_Unstable(_, _)
InsertByNet_Unstable(sorted, x) ==
    IF sorted = <<>> THEN <<x>>
    ELSE IF RLe(Head(sorted).net, x.net) THEN <<x>> \o sorted
    ELSE <<Head(sorted)>> \o InsertByNet_Unstable(Tail(sorted), x)

RECURSIVE InsertByNet(_, _)
InsertByNet(sorted, x) ==
    IF sorted = <<>> THEN <<x>>
    ELSE IF RLt(Head(sorted).net, x.net) THEN <<x>> \o sorted
    ELSE <<Head(sorted)>> \o InsertByNet(Tail(sorted), x)

RECURSIVE SortByNetDesc(_)
SortByNetDesc(scored) ==
    IF scored = <<>> THEN <<>>
    ELSE InsertByNet(SortByNetDesc(SubSeq(scored, 1, Len(scored) - 1)),
                     scored[Len(scored)])

\* scored[:limit] for limit > 0
Truncate(scored, limit) ==
    SubSeq(scored, 1, IF limit < Len(scored) THEN limit ELSE Len(scored))

\* scored = [score_card(card, ...) for card in cards], before the sort
ScoreAll(cards, category_mix, monthly_total, window_days) ==
    [i \in 1..Len(cards) |->
        ScoreCard(cards[i], category_mix, monthly_total, window_days)]

\* score_catalog raises when a card it scores raises: the comprehension of
\* scoring.py:171 catches nothing.
ScoreCatalogRaises(cards, category_mix, monthly_total) ==
    /\ ~(RLe(monthly_total, Zero) \/ category_mix = <<>>)
    /\ \E i \in 1..Len(cards) : ScoreCardRaises(cards[i])

\* Variant: only the total is checked, an empty mix is scored.
ScoreCatalog_TotalOnly(cards, category_mix, monthly_total, window_days, limit) ==
    IF RLe(monthly_total, Zero) THEN <<>>
    ELSE LET sorted ==
                 SortByNetDesc(ScoreAll(cards, category_mix, monthly_total, window_days))
         IN IF limit > 0 THEN Truncate(sorted, limit) ELSE sorted

ScoreCatalog(cards, category_mix, monthly_total, window_days, limit) ==
    IF RLe(monthly_total, Zero) \/ category_mix = <<>> THEN <<>>
    ELSE LET sorted ==
                 SortByNetDesc(ScoreAll(cards, category_mix, monthly_total, window_days))
         IN IF limit > 0 THEN Truncate(sorted, limit) ELSE sorted

(***************************************************************************)
(* app.py: earn_percent_for_product                                        *)
(***************************************************************************)
\* next((r for r in rules if r.get("category") == category), None)
RECURSIVE FirstRule(_, _)
FirstRule(rules, category) ==
    IF rules = <<>> THEN <<>>
    ELSE IF Head(rules).category = category THEN <<Head(rules)>>
    ELSE FirstRule(Tail(rules), category)

EarnPercentForProduct(product, category, monthly_spend) ==
    LET base == FloatOrZero(product.base_cashback)
        rule == FirstRule(product.rewards, category)
    IN IF rule = <<>> THEN base
       ELSE LET rate == IF rule[1].rate = NoneNum \/ rule[1].rate = Zero
                        THEN base ELSE rule[1].rate
                cap == rule[1].cap_monthly
                spend == FloatOrZero(monthly_spend)
            IN IF cap = NoneNum \/ cap = Zero THEN rate
               ELSE IF RLe(spend, Zero) THEN rate
               ELSE IF RLe(spend, cap) THEN rate
               ELSE RDiv(RAdd(RMul(cap, rate), RMul(RSub(spend, cap), base)), spend)

(***************************************************************************)
(* services/spend.py                                                       *)
(***************************************************************************)
\* float(txn.get("amount", 0) or 0)
RawAmount(txn) == FloatOrZero(txn.amount)

\* Variant: refunds are not floored at 0 and reduce the total.
SpendAmount_Signed(txn) == RawAmount(txn)

\* amount = max(raw_amount, 0.0)
SpendAmount(txn) == RMax(RawAmount(txn), Zero)

HasKey(d, key) == \E i \in 1..Len(d) : d[i].key = key

\* d[key] = value: an existing key keeps its place, a new key goes last.
DictSet(d, key, value) ==
    IF HasKey(d, key)
    THEN [i \in 1..Len(d) |-> IF d[i].key = key THEN [key |-> key, value |-> value] ELSE d[i]]
    ELSE Append(d, [key |-> key, value |-> value])

\* txn.get("category") or "Uncategorized"
CategoryKey(txn) == IF txn.category = "" THEN "Uncategorized" ELSE txn.category

\* _summarize_categories: total, by_category and counts after the loop.
RECURSIVE SummarizeCategories(_)
SummarizeCategories(transactions) ==
    IF transactions = <<>>
    THEN [total |-> Zero, by_category |-> <<>>, counts |-> <<>>]
    ELSE LET n == Len(transactions)
             before == SummarizeCategories(SubSeq(transactions, 1, n - 1))
             txn == transactions[n]
             amount == SpendAmount(txn)
             category == CategoryKey(txn)
         IN [total |-> RAdd(before.total, amount),
             by_category |->
                 DictSet(before.by_category, category,
                         RAdd(DictGet(before.by_category, category, Zero), amount)),
             counts |->
                 DictSet(before.counts, category,
                         DictGet(before.counts, category, 0) + 1)]

\* sorted(rows, key=amount, reverse=True): stable, rows with equal amount
\* keep their order.  A row is a record with an amount field.
\* Variant: descending but not stable, a later row overtakes its ties.
RECURSIVE InsertByAmount_Unstable(_, _)
InsertByAmount_Unstable(sorted, x) ==
    IF sorted = <<>> THEN <<x>>
    ELSE IF RLe(Head(sorted).amount, x.amount) THEN <<x>> \o sorted
    ELSE <<Head(sorted)>> \o InsertByAmount_Unstable(Tail(sorted), x)

RECURSIVE InsertByAmount(_, _)
InsertByAmount(sorted, x) ==
    IF sorted = <<>> THEN <<x>>
    ELSE IF RLt(Head(sorted).amount, x.amount) THEN <<x>> \o sorted
    ELSE <<Head(sorted)>> \o InsertByAmount(Tail(sorted), x)

RECURSIVE SortByAmountDesc(_)
SortByAmountDesc(rows) ==
    IF rows = <<>> THEN <<>>
    ELSE InsertByAmount(SortByAmountDesc(SubSeq(rows, 1, Len(rows) - 1)),
                        rows[Len(rows)])

\* Variant: the share is taken of the largest category, not of the total.
CategoryRows_ShareOfLargest(total, by_category, counts) ==
    LET ordered == SortByAmountDesc([i \in 1..Len(by_category) |->
                                        [key |-> by_category[i].key,
                                         amount |-> by_category[i].value]])
    IN [i \in 1..Len(ordered) |->
           [key |-> ordered[i].key,
            amount |-> Round2(ordered[i].amount),
            count |-> DictGet(counts, ordered[i].key, 0),
            pct |-> IF total # Zero THEN RDiv(ordered[i].amount, ordered[1].amount)
                    ELSE Zero]]

\* The categories list of aggregate_spend_details (spend.py:167-175): the
\* items of by_category sorted by their unrounded amount.
CategoryRows(total, by_category, counts) ==
    LET ordered == SortByAmountDesc([i \in 1..Len(by_category) |->
                                        [key |-> by_category[i].key,
                                         amount |-> by_category[i].value]])
    IN [i \in 1..Len(ordered) |->
           [key |-> ordered[i].key,
            amount |-> Round2(ordered[i].amount),
            count |-> DictGet(counts, ordered[i].key, 0),
            pct |-> IF total # Zero THEN RDiv(ordered[i].amount, total) ELSE Zero]]

\* merchant_id or description_clean or description or "Merchant"
MerchantName(txn) ==
    IF txn.merchant_id # "" THEN txn.merchant_id
    ELSE IF txn.description_clean # "" THEN txn.description_clean
    ELSE IF txn.description # "" THEN txn.description
    ELSE "Merchant"

\* The case-insensitive text matches between a rule's pattern and a merchant
\* name: <<pattern, name>> is listed when the pattern occurs in the name.
PatternOccurs ==
    {<<"cafe", "Blue Cafe">>, <<"blue", "Blue Cafe">>, <<"mart", "Corner Mart">>}

\* Variant: the last rule whose matcher finds the name wins.
RECURSIVE ResolveCategory_LastMatch(_, _, _)
ResolveCategory_LastMatch(name, fallback, rules) ==
    IF rules = <<>> THEN fallback
    ELSE IF <<rules[Len(rules)].matcher, name>> \in PatternOccurs
         THEN rules[Len(rules)].category
    ELSE ResolveCategory_LastMatch(name, fallback, SubSeq(rules, 1, Len(rules) - 1))

\* _resolve_category: the first rule whose matcher finds the name wins.
RECURSIVE ResolveCategory(_, _, _)
ResolveCategory(name, fallback, rules) ==
    IF rules = <<>> THEN fallback
    ELSE IF <<Head(rules).matcher, name>> \in PatternOccurs THEN Head(rules).category
    ELSE ResolveCategory(name, fallback, Tail(rules))

\* Variant: refunds and zero amounts are not skipped.
RECURSIVE MerchantTotals_CountsAll(_)
MerchantTotals_CountsAll(transactions) ==
    IF transactions = <<>> THEN <<>>
    ELSE LET n == Len(transactions)
             before == MerchantTotals_CountsAll(SubSeq(transactions, 1, n - 1))
             txn == transactions[n]
             amount == RawAmount(txn)
             name == MerchantName(txn)
             fresh == [name |-> name,
                       category |-> IF txn.category = "" THEN "General" ELSE txn.category,
                       count |-> 0,
                       amount |-> Zero]
             merchant == DictGet(before, name, fresh)
         IN DictSet(before, name,
                    [merchant EXCEPT !.count = @ + 1, !.amount = RAdd(@, amount)])

\* The merchants dict after the loop of spend.py:177-203, keyed by name.
RECURSIVE MerchantTotals(_)
MerchantTotals(transactions) ==
    IF transactions = <<>> THEN <<>>
    ELSE LET n == Len(transactions)
             before == MerchantTotals(SubSeq(transactions, 1, n - 1))
             txn == transactions[n]
             amount == SpendAmount(txn)
             name == MerchantName(txn)
             fresh == [name |-> name,
                       category |-> IF txn.category = "" THEN "General" ELSE txn.category,
                       count |-> 0,
                       amount |-> Zero]
             merchant == DictGet(before, name, fresh)
         IN IF RLe(amount, Zero) THEN before
            ELSE DictSet(before, name,
                         [merchant EXCEPT !.count = @ + 1, !.amount = RAdd(@, amount)])

\* The merchants list: categories resolved, amounts rounded, sorted.
MerchantRows(transactions, category_rules) ==
    LET merchants == MerchantTotals(transactions)
        resolved == [i \in 1..Len(merchants) |->
                        [merchants[i].value EXCEPT
                            !.category = ResolveCategory(merchants[i].value.name, @,
                                                         category_rules),
                            !.amount = Round2(@)]]
    IN SortByAmountDesc(resolved)

AggregateSpendDetails(transactions, category_rules) ==
    LET summary == SummarizeCategories(transactions)
    IN [total |-> Round2(summary.total),
        transaction_count |-> Len(transactions),
        categories |-> CategoryRows(summary.total, summary.by_category, summary.counts),
        merchants |-> MerchantRows(transactions, category_rules)]

(***************************************************************************)
(* services/rewards.py: normalize_mix                                      *)
(***************************************************************************)
\* A JSON value of the raw mix: a number, a string that float() parses, or a
\* value float() rejects (other text, null, a list).
Number(x) == [kind |-> "number", num |-> x]
NumericString(x) == [kind |-> "numeric_string", num |-> x]
Text == [kind |-> "text", num |-> NoneNum]
Null == [kind |-> "null", num |-> NoneNum]

\* Whether float(value) succeeds.
FloatParses(value) == value.kind \in {"number", "numeric_string"}

\* Variant: only negative values are dropped, a value of 0 is kept.
RECURSIVE Sanitize_KeepsZero(_)
Sanitize_KeepsZero(raw_mix) ==
    IF raw_mix = <<>> THEN <<>>
    ELSE LET n == Len(raw_mix)
             before == Sanitize_KeepsZero(SubSeq(raw_mix, 1, n - 1))
             entry == raw_mix[n]
         IN IF ~FloatParses(entry.value) THEN before
            ELSE IF RLt(entry.value.num, Zero) THEN before
            ELSE DictSet(before, entry.key, entry.value.num)

\* The sanitized dict of normalize_mix (rewards.py:101-109).
RECURSIVE Sanitize(_)
Sanitize(raw_mix) ==
    IF raw_mix = <<>> THEN <<>>
    ELSE LET n == Len(raw_mix)
             before == Sanitize(SubSeq(raw_mix, 1, n - 1))
             entry == raw_mix[n]
         IN IF ~FloatParses(entry.value) THEN before
            ELSE IF RLe(entry.value.num, Zero) THEN before
            ELSE DictSet(before, entry.key, entry.value.num)

DictValues(d) == [i \in 1..Len(d) |-> d[i].value]

\* Variant: the total is summed over every value float() parses, the
\* dropped non-positive ones included.
MixTotal_Unfiltered(raw_mix, sanitized) ==
    RSum([i \in 1..Len(raw_mix) |->
             IF FloatParses(raw_mix[i].value) THEN raw_mix[i].value.num ELSE Zero])

\* total = sum(sanitized.values())
MixTotal(raw_mix, sanitized) == RSum(DictValues(sanitized))

\* normalize_mix: the pair (mix, total).
NormalizeMix(raw_mix) ==
    LET sanitized == Sanitize(raw_mix)
        total == MixTotal(raw_mix, sanitized)
    IN IF RLe(total, Zero) THEN [mix |-> <<>>, total |-> Zero]
       ELSE [mix |-> [i \in 1..Len(sanitized) |->
                         [key |-> sanitized[i].key,
                          value |-> RDiv(sanitized[i].value, total)]],
             total |-> total]

\* str.strip() and str.lower() on the category names in use
Strip(name) == IF name = "Dining " THEN "Dining" ELSE name

Lower(name) ==
    IF name = "Dining" THEN "dining"
    ELSE IF name = "Groceries" THEN "groceries"
    ELSE IF name = "General" THEN "general"
    ELSE name

\* round(x, 4)
Round4(x) == Rat(Fixed(x, 10000), 10000)

\* _normalize_rewards: rules without a category, without a rate or with a
\* rate float() rejects are dropped; the key is the lower-cased category.
NormalizeRewards(rewards) ==
    LET kept == SelectSeq(rewards,
                    LAMBDA reward: /\ reward.category # "" /\ reward.rate # NoneNum
                                   /\ reward.rate # Malformed
                                   /\ Strip(reward.category) # "")
    IN [i \in 1..Len(kept) |->
           [category |-> Strip(kept[i].category),
            key |-> Lower(Strip(kept[i].category)),
            rate |-> kept[i].rate,
            cap_monthly |-> kept[i].cap_monthly]]

\* summarize_spend: total_spend, totals and counts over the transactions with
\* a positive amount; a missing category is "General".
RECURSIVE SummarizeSpend(_)
SummarizeSpend(transactions) ==
    IF transactions = <<>>
    THEN [total_spend |-> Zero, totals |-> <<>>, counts |-> <<>>]
    ELSE LET n == Len(transactions)
             before == SummarizeSpend(SubSeq(transactions, 1, n - 1))
             txn == transactions[n]
             amount == RMax(RawAmount(txn), Zero)
             category == IF txn.category = "" THEN "General" ELSE txn.category
         IN IF RLe(amount, Zero) THEN before
            ELSE [total_spend |-> RAdd(before.total_spend, amount),
                  totals |-> DictSet(before.totals, category,
                                 RAdd(DictGet(before.totals, category, Zero), amount)),
                  counts |-> DictSet(before.counts, category,
                                 DictGet(before.counts, category, 0) + 1)]

\* next((row for row in rewards if row["key"] == lookup_key), None)
RECURSIVE FirstReward(_, _)
FirstReward(rewards, lookup_key) ==
    IF rewards = <<>> THEN <<>>
    ELSE IF Head(rewards).key = lookup_key THEN <<Head(rewards)>>
    ELSE FirstReward(Tail(rewards), lookup_key)

\* The loop body of rewards.py:63-87 for one category: its local values.
CategoryEarnings(category, spend, rewards, base_rate) ==
    LET reward == FirstReward(rewards, Lower(category))
        rate == IF reward # <<>> THEN reward[1].rate ELSE base_rate
        cap == IF reward # <<>> THEN reward[1].cap_monthly ELSE NoneNum
        eligible == IF cap # NoneNum THEN RMin(spend, cap) ELSE spend
        base_cash == RMul(base_rate, spend)
        bonus_cash == RMul(RMax(RSub(rate, base_rate), Zero), eligible)
    IN [category |-> category, spend |-> spend, rate |-> rate, cap |-> cap,
        cashback |-> RAdd(base_cash, bonus_cash)]

\* compute_month_earnings: the categories in descending order of spend, each
\* paid the base rate plus the bonus of the first rule with its key.
ComputeMonthEarnings(card, transactions) ==
    LET base_rate == FloatOrZero(card.base_cashback)
        rewards == NormalizeRewards(card.rewards)
        summary == SummarizeSpend(transactions)
        ordered == SortByAmountDesc([i \in 1..Len(summary.totals) |->
                                        [key |-> summary.totals[i].key,
                                         amount |-> summary.totals[i].value]])
        rows == [i \in 1..Len(ordered) |->
                    CategoryEarnings(ordered[i].key, ordered[i].amount, rewards,
                                     base_rate)]
        total_cashback == RSum([i \in 1..Len(rows) |-> rows[i].cashback])
        effective_rate == IF summary.total_spend # Zero
                          THEN RDiv(total_cashback, summary.total_spend) ELSE Zero
    IN [total_cashback |-> Round2(total_cashback),
        total_spend |-> Round2(summary.total_spend),
        effective_rate |-> Round4(effective_rate),
        base_rate |-> Round4(base_rate),
        by_category |->
            [i \in 1..Len(rows) |->
                [category |-> rows[i].category,
                 spend |-> Round2(rows[i].spend),
                 rate |-> Round4(rows[i].rate),
                 cashback |-> Round2(rows[i].cashback),
                 transactions |-> DictGet(summary.counts, rows[i].category, 0),
                 capMonthly |-> rows[i].cap]]]

(***************************************************************************)
(* routes/recommendations.py (and its copy in app.py) and the              *)
(* /rewards/compare route of app.py: the callers of score_catalog.         *)
(***************************************************************************)
DefaultWindow == 90
CompareWindow == 30
DefaultLimit == 5
FallbackTotal == 1000

\* load_transactions (spend.py:79-91) on the documents the query returns, in
\* cursor order: a refund stored with a positive amount is made negative and
\* the amount is rounded to cents.
LoadTransactions(docs) ==
    [i \in 1..Len(docs) |->
        LET amt == FloatOrZero(docs[i].amount)
        IN [docs[i] EXCEPT
               !.amount = Round2(IF docs[i].status = "refund" /\ RLt(Zero, amt)
                                 THEN RSub(Zero, amt) ELSE amt)]]

\* compute_user_mix on transactions already loaded: the pair (mix, total).
ComputeUserMix(transactions) ==
    LET summary == SummarizeCategories(transactions)
        spent == SelectSeq(summary.by_category, LAMBDA item : RLt(Zero, item.value))
    IN IF RLe(summary.total, Zero) THEN [mix |-> <<>>, total |-> Zero]
       ELSE [mix |-> [i \in 1..Len(spent) |->
                         [key |-> spent[i].key,
                          value |-> RDiv(spent[i].value, summary.total)]],
             total |-> summary.total]

\* The mix of the request body (recommendations.py:51-65): {} unless
\* category_mix is an object with a positive sum of kept values.
PayloadMix(category_mix) ==
    IF category_mix = <<>> THEN <<>>
    ELSE LET sanitized == Sanitize(category_mix[1])
             mix_total == RSum(DictValues(sanitized))
         IN IF RLt(Zero, mix_total)
            THEN [i \in 1..Len(sanitized) |->
                     [key |-> sanitized[i].key,
                      value |-> RDiv(sanitized[i].value, mix_total)]]
            ELSE <<>>

\* Variant: without a fallback, a zero window total gives a monthly total of 0.
MonthlyTotal_NoFallback(monthly_spend_value, total_window_spend, window_days, normalized_mix) ==
    IF monthly_spend_value # NoneNum THEN RMax(monthly_spend_value, Zero)
    ELSE IF RLt(Zero, total_window_spend) /\ window_days > 0
         THEN RMul(RDiv(total_window_spend, Int2Rat(window_days)),
                   Int2Rat(DaysPerMonth))
    ELSE Zero

\* monthly_total as set at recommendations.py:76-84
MonthlyTotal(monthly_spend_value, total_window_spend, window_days, normalized_mix) ==
    IF monthly_spend_value # NoneNum THEN RMax(monthly_spend_value, Zero)
    ELSE IF RLt(Zero, total_window_spend) /\ window_days > 0
         THEN RMul(RDiv(total_window_spend, Int2Rat(window_days)),
                   Int2Rat(DaysPerMonth))
    ELSE IF normalized_mix # <<>> THEN Int2Rat(FallbackTotal)
    ELSE Zero

\* credit_cards.find({"active": True})
FindActive(credit_cards) == SelectSeq(credit_cards, LAMBDA doc : doc.active)

\* credit_cards.find({"slug": {"$in": slugs}})
FindBySlugs(credit_cards, slugs) ==
    SelectSeq(credit_cards,
              LAMBDA doc : \E i \in 1..Len(slugs) : slugs[i] = doc.slug)

BadRequest == [status |-> 400]
ServerError == [status |-> 500]

\* The cards passed to score_catalog by the recommendations handler.
RecommendationsCatalog(credit_cards) == FindActive(credit_cards)

\* The local variables of the recommendations handler (recommendations.py:
\* 25-97); window_days is known to be positive.  catalog_cards stays empty
\* when the handler returns before the catalog is read.
RecommendationsLocals(payload, docs, credit_cards, window_days) ==
    LET transactions == LoadTransactions(docs)
        breakdown == AggregateSpendDetails(transactions, <<>>)
        payload_mix == PayloadMix(payload.category_mix)
        user_mix == ComputeUserMix(transactions)
        normalized_mix == IF payload_mix # <<>> THEN payload_mix ELSE user_mix.mix
        total_window_spend ==
            IF payload_mix # <<>> THEN breakdown.total ELSE user_mix.total
        monthly_total == MonthlyTotal(payload.monthly_spend, total_window_spend,
                                      window_days, normalized_mix)
    IN [window_days |-> window_days,
        limit |-> IF payload.limit = <<>> THEN DefaultLimit ELSE payload.limit[1],
        transactions |-> transactions,
        normalized_mix |-> normalized_mix,
        total_window_spend |-> total_window_spend,
        monthly_total |-> monthly_total,
        catalog_cards |-> IF normalized_mix = <<>> \/ RLe(monthly_total, Zero)
                          THEN <<>> ELSE RecommendationsCatalog(credit_cards)]

\* window_days = int(payload.get("window") or 90)
RequestWindow(payload) ==
    IF payload.window = <<>> \/ payload.window[1] = 0 THEN DefaultWindow
    ELSE payload.window[1]

\* The response of POST /recommendations (the explanation text is left out).
Recommendations(payload, docs, credit_cards) ==
    LET window_days == RequestWindow(payload)
    IN IF window_days <= 0 THEN BadRequest
       ELSE LET l == RecommendationsLocals(payload, docs, credit_cards, window_days)
                catalog_cards == l.catalog_cards
                body == [status |-> 200,
                         mix |-> l.normalized_mix,
                         monthly_spend |-> Round2(l.monthly_total),
                         windowDays |-> window_days,
                         cards |-> <<>>]
            IN IF l.normalized_mix = <<>> \/ RLe(l.monthly_total, Zero) THEN body
               ELSE IF catalog_cards = <<>> THEN body
               ELSE IF ScoreCatalogRaises(catalog_cards, l.normalized_mix,
                                          l.monthly_total)
                    THEN ServerError
               ELSE [body EXCEPT
                        !.cards = ScoreCatalog(catalog_cards, l.normalized_mix,
                                               l.monthly_total, window_days, l.limit)]

\* The cards passed to score_catalog by the compare handler (app.py:1991).
CompareCatalog(credit_cards, slugs) == FindBySlugs(credit_cards, slugs)

\* The local variables of the compare handler (app.py:1955-1991).  payload.mix
\* is the mix object ({} when missing), payload.cards the slugs it names.
\* catalog_cards stays empty when the handler returns before the catalog is
\* read.
RewardsCompareLocals(payload, credit_cards) ==
    LET normalized == NormalizeMix(payload.mix)
        slugs == payload.cards
    IN [mix |-> normalized.mix,
        total |-> normalized.total,
        window_days |->
            IF payload.window = <<>> \/ payload.window[1] <= 0 THEN CompareWindow
            ELSE payload.window[1],
        slugs |-> slugs,
        catalog_cards |->
            IF slugs = <<>> \/ normalized.mix = <<>> \/ RLe(normalized.total, Zero)
            THEN <<>> ELSE CompareCatalog(credit_cards, slugs)]

\* The response of POST /rewards/compare (app.py:1951-2010).
RewardsCompare(payload, credit_cards) ==
    LET l == RewardsCompareLocals(payload, credit_cards)
        body == [status |-> 200,
                 mix |-> l.mix,
                 monthly_spend |-> Round2(l.total),
                 windowDays |-> l.window_days,
                 cards |-> <<>>]
    IN IF l.slugs = <<>> \/ l.mix = <<>> \/ RLe(l.total, Zero) THEN body
       ELSE IF l.catalog_cards = <<>> THEN body
       ELSE IF ScoreCatalogRaises(l.catalog_cards, l.mix, l.total) THEN ServerError
       ELSE [body EXCEPT
                !.cards = ScoreCatalog(l.catalog_cards, l.mix, l.total,
                                       l.window_days, Len(l.catalog_cards))]

(***************************************************************************)
(* services/card_optimizer.py                                              *)
(*                                                                         *)
(* Amounts are integer cents.  A catalog card is [base_rate,               *)
(* category_rates, rotating, merchant_overrides]; rotating is <<>> or one  *)
(* record [rate, cap_usd, categories] whose categories are those of the    *)
(* current quarter.  A linked user card is <<>> or one record [activated,  *)
(* caps], activated being the flag of the current quarter.                 *)
(***************************************************************************)
\* int(x): truncation toward zero
Trunc(x) == IF x[1] >= 0 THEN x[1] \div x[2] ELSE -((-x[1]) \div x[2])

\* math.floor(x)
Floor(x) == x[1] \div x[2]

\* str.upper() on the merchant names in use
Upper(name) == IF name = "Costco" THEN "COSTCO" ELSE name

\* rate_for_category: the first matching category rate, else the base rate
RECURSIVE RateForCategory(_, _, _)
RateForCategory(category_rates, base_rate, category) ==
    IF category = "" \/ category_rates = <<>> THEN base_rate
    ELSE IF Head(category_rates).category = category THEN Head(category_rates).rate
    ELSE RateForCategory(Tail(category_rates), base_rate, category)

\* The first merchant override whose name matches without regard to case.
RECURSIVE MerchantOverride(_, _)
MerchantOverride(merchant_overrides, merchant) ==
    IF merchant = "" \/ merchant_overrides = <<>> THEN <<>>
    ELSE IF /\ Head(merchant_overrides).merchant # ""
            /\ Upper(Head(merchant_overrides).merchant) = Upper(merchant)
         THEN <<Head(merchant_overrides)>>
    ELSE MerchantOverride(Tail(merchant_overrides), merchant)

\* card_optimizer.py:65-73: what is left of the rotating cap, from the first
\* cap entry of scope "rotating" or else from the card's cap.
RECURSIVE RemCents(_, _)
RemCents(caps, cap_usd) ==
    IF caps = <<>> THEN Trunc(RMul(cap_usd, Int2Rat(100)))
    ELSE IF Head(caps).scope = "rotating"
         THEN LET cap_cents == IF Head(caps).cap_cents # <<>> THEN Head(caps).cap_cents[1]
                               ELSE Trunc(RMul(cap_usd, Int2Rat(100)))
                  used_cents == Head(caps).used_cents
              IN IF cap_cents - used_cents > 0 THEN cap_cents - used_cents ELSE 0
    ELSE RemCents(Tail(caps), cap_usd)

\* hi_part = min(amount_cents, rem_cents)
HiPart(amount_cents, rem_cents) ==
    IF rem_cents < amount_cents THEN rem_cents ELSE amount_cents

\* Variant: the whole amount earns the base rate as well.
LoPart_WholeAmount(amount_cents, rem_cents) == amount_cents

\* lo_part = max(0, amount_cents - rem_cents)
LoPart(amount_cents, rem_cents) ==
    IF amount_cents - rem_cents > 0 THEN amount_cents - rem_cents ELSE 0

\* The branch score_single_transaction returns from.
Branch(card, user_card, merchant, category) ==
    IF MerchantOverride(card.merchant_overrides, merchant) # <<>> THEN "override"
    ELSE IF /\ card.rotating # <<>> /\ category # ""
            /\ category \in card.rotating[1].categories
            /\ user_card # <<>> /\ user_card[1].activated
         THEN "rotating"
    ELSE IF category # "" /\ RLt(card.base_rate,
                 RateForCategory(card.category_rates, card.base_rate, category))
         THEN "category"
    ELSE "base"

\* The local variables of the rotating branch (card_optimizer.py:61-77); all
\* 0 on the other branches, which do not assign them.
ScoreSingleLocals(card, user_card, merchant, category, amount_cents) ==
    IF Branch(card, user_card, merchant, category) = "rotating"
    THEN LET rem_cents == RemCents(user_card[1].caps, card.rotating[1].cap_usd)
         IN [branch |-> "rotating", rem_cents |-> rem_cents,
             hi_part |-> HiPart(amount_cents, rem_cents),
             lo_part |-> LoPart(amount_cents, rem_cents)]
    ELSE [branch |-> Branch(card, user_card, merchant, category),
          rem_cents |-> 0, hi_part |-> 0, lo_part |-> 0]

\* (effective rate, reward in cents, actions) returned by
\* score_single_transaction; the reason strings are left out.
ScoreSingleTransaction(card, user_card, merchant, category, amount_cents) ==
    LET l == ScoreSingleLocals(card, user_card, merchant, category, amount_cents)
        activate == IF /\ card.rotating # <<>> /\ category # ""
                       /\ category \in card.rotating[1].categories
                       /\ ~(user_card # <<>> /\ user_card[1].activated)
                    THEN <<"activate_rotating">> ELSE <<>>
    IN IF l.branch = "override"
       THEN LET r == MerchantOverride(card.merchant_overrides, merchant)[1].rate
            IN [eff |-> r, reward |-> Floor(RMul(Int2Rat(amount_cents), r)),
                actions |-> <<>>]
       ELSE IF l.branch = "rotating"
       THEN LET reward == Trunc(RAdd(RMul(Int2Rat(l.hi_part), card.rotating[1].rate),
                                     RMul(Int2Rat(l.lo_part), card.base_rate)))
            IN [eff |-> IF amount_cents > 0 THEN Rat(reward, amount_cents) ELSE Zero,
                reward |-> reward, actions |-> <<>>]
       ELSE IF l.branch = "category"
       THEN LET cat_rate == RateForCategory(card.category_rates, card.base_rate, category)
            IN [eff |-> cat_rate,
                reward |-> Trunc(RMul(Int2Rat(amount_cents), cat_rate)),
                actions |-> activate]
       ELSE [eff |-> card.base_rate,
             reward |-> Trunc(RMul(Int2Rat(amount_cents), card.base_rate)),
             actions |-> activate]

(***************************************************************************)
(* Input domains.                                                          *)
(***************************************************************************)
MaxRules == 2
MaxCards == 3

Pct(p) == Rat(p, 100)
Usd(v) == Int2Rat(v)

Categories == {"Dining", "Groceries"}

Rule(c, r, cap) == [category |-> c, rate |-> r, cap_monthly |-> cap]

RuleSet ==
    {Rule("Dining", Pct(3), Usd(200)),
     Rule("Dining", Pct(3), NoneNum),
     Rule("Dining", Pct(3), Usd(0)),
     Rule("Dining", Pct(1), Usd(200)),
     Rule("Groceries", Pct(5), NoneNum),
     Rule("", Pct(5), NoneNum),
     Rule("Dining", NoneNum, Usd(200))}

Offer(bonus, min_spend, days) ==
    <<[bonus_value_usd |-> bonus, min_spend |-> min_spend, window_days |-> days]>>

OfferSet ==
    {<<>>,
     Offer(Usd(200), Usd(2000), <<90>>),
     Offer(Usd(200), Usd(2000), <<>>),
     Offer(Usd(200), NoneNum, <<90>>),
     Offer(Usd(0), Usd(2000), <<90>>),
     Offer(NoneNum, NoneNum, <<>>)}

\* A credit_cards document; active is missing or true unless set otherwise.
Card(slug, base, rewards, offer, fee) ==
    [slug |-> slug, base_cashback |-> base, rewards |-> rewards,
     welcome_offer |-> offer, annual_fee |-> fee, active |-> TRUE]

Inactive(card) == [card EXCEPT !.active = FALSE]

RECURSIVE SeqsUpTo(_, _)
SeqsUpTo(S, n) ==
    IF n = 0 THEN {<<>>}
    ELSE LET shorter == SeqsUpTo(S, n - 1)
         IN shorter \cup {Append(s, x) : s \in {t \in shorter : Len(t) = n - 1}, x \in S}

\* (base_cashback, annual_fee) pairs
BasesAndFees ==
    {<<NoneNum, NoneNum>>, <<Pct(1), NoneNum>>, <<Pct(1), Usd(95)>>,
     <<Pct(2), NoneNum>>}

CardSet ==
    {Card("card", bf[1], rewards, offer, bf[2]) :
        bf \in BasesAndFees,
        rewards \in SeqsUpTo(RuleSet, MaxRules),
        offer \in OfferSet}

Item(k, v) == [key |-> k, value |-> v]

MixSet ==
    {<<>>,
     <<Item("Dining", Rat(3, 10)), Item("Other", Rat(7, 10))>>,
     <<Item("Groceries", Rat(2, 3)), Item("Dining", Rat(1, 3))>>}

MonthlyTotals == {Usd(0), Usd(150), Usd(1000)}

\* (category_mix, monthly_total) pairs for score_catalog
MixesAndTotals ==
    {<<category_mix, Usd(1000)>> : category_mix \in MixSet}
        \cup {<<<<Item("Dining", Rat(3, 10)), Item("Other", Rat(7, 10))>>, total>> :
                  total \in {Usd(0), Usd(150)}}

\* (category_mix, monthly_total, window_days) triples for score_card
ScoreCardInputs ==
    {<<mt[1], mt[2], 30>> : mt \in MixesAndTotals}
        \cup {<<<<Item("Dining", Rat(3, 10)), Item("Other", Rat(7, 10))>>, Usd(1000), 0>>,
               <<<<Item("Groceries", Rat(2, 3)), Item("Dining", Rat(1, 3))>>, Usd(150), 30>>}

\* The catalog: two cards with the same terms, a flat card, a fee card and a
\* card whose Dining rate is not a number.
CatalogCards ==
    {Card("amber", Pct(1), <<Rule("Dining", Pct(3), Usd(200))>>, <<>>, Usd(95)),
     Card("birch", Pct(1), <<Rule("Dining", Pct(3), Usd(200))>>, <<>>, Usd(95)),
     Card("cedar", Pct(2), <<>>, <<>>, NoneNum),
     Card("dune", Pct(1), <<Rule("Groceries", Pct(5), NoneNum)>>,
          Offer(Usd(200), Usd(2000), <<90>>), Usd(95)),
     Card("ember", Pct(1), <<Rule("Dining", Malformed, NoneNum)>>, <<>>, NoneNum)}

Slugs(cards) == {cards[i].slug : i \in 1..Len(cards)}

Catalogs ==
    {cards \in SeqsUpTo(CatalogCards, MaxCards) : Cardinality(Slugs(cards)) = Len(cards)}

Limits == {-1, 0, 1, 2, 5}

MaxTxns == 3
MaxMixEntries == 3

Txn(amount, category, merchant_id, description) ==
    [amount |-> amount, category |-> category, merchant_id |-> merchant_id,
     description_clean |-> "", description |-> description]

\* Amounts are whole cents, as load_transactions leaves them (spend.py:87);
\* refunds are negative.
TxnSet ==
    {Txn(Rat(1234, 100), "Dining", "", "Blue Cafe"),
     Txn(Usd(20), "Dining", "", "Blue Cafe"),
     Txn(Usd(20), "Groceries", "Corner Mart", "mart #12"),
     Txn(Usd(-5), "Groceries", "Corner Mart", ""),
     Txn(Rat(-1234, 100), "Dining", "", "Blue Cafe"),
     Txn(Usd(20), "", "", ""),
     Txn(Usd(0), "Travel", "", "Blue Cafe"),
     Txn(NoneNum, "", "Corner Mart", "")}

CategoryRule(rule_type, matcher, category) ==
    [rule_type |-> rule_type, matcher |-> matcher, category |-> category]

RuleLists ==
    {<<>>,
     <<CategoryRule("regex", "cafe", "Coffee")>>,
     <<CategoryRule("substr", "blue", "Bars"), CategoryRule("regex", "cafe", "Coffee"),
       CategoryRule("regex", "mart", "Groceries")>>}

MixKeys == <<"Dining", "Groceries", "Travel", "Gas">>

MixValues ==
    {Number(Usd(100)), Number(Usd(200)), Number(Usd(0)), Number(Usd(-50)),
     NumericString(Usd(50)), Text, Null}

\* Raw mixes: up to MaxMixEntries values under distinct keys.
RawMixes ==
    {[i \in 1..Len(values) |-> [key |-> MixKeys[i], value |-> values[i]]] :
        values \in SeqsUpTo(MixValues, MaxMixEntries)}

StoredTxn(amount, status, category, merchant_id) ==
    [amount |-> amount, status |-> status, category |-> category,
     merchant_id |-> merchant_id, description_clean |-> "", description |-> ""]

\* The user's transactions inside the window, as stored, newest first.
WindowDocs ==
    {<<>>,
     <<StoredTxn(Usd(2700), "posted", "Dining", "Blue Cafe")>>,
     <<StoredTxn(Usd(1500), "posted", "Dining", "Blue Cafe"),
       StoredTxn(Usd(100), "refund", "Dining", "Blue Cafe"),
       StoredTxn(Rat(123456, 100), "posted", "Groceries", "Corner Mart")>>,
     <<StoredTxn(Usd(40), "refund", "Dining", "Blue Cafe")>>}

\* The category_mix of a request body: missing, with entries that are kept,
\* or with none that is.
RequestMixes ==
    {<<>>,
     <<<<Item("Dining", Number(Usd(300))), Item("Groceries", Number(Usd(700))),
         Item("Gas", Text)>>>>,
     <<<<Item("Dining", Number(Usd(0)))>>>>}

RecommendationPayloads ==
    {[window |-> window, limit |-> limit, monthly_spend |-> monthly_spend,
      category_mix |-> category_mix] :
        window \in {<<>>, <<30>>, <<-7>>},
        limit \in {<<>>, <<1>>},
        monthly_spend \in {NoneNum, Usd(500), Usd(-10)},
        category_mix \in RequestMixes}

CatalogCard(slug) == CHOOSE card \in CatalogCards : card.slug = slug

\* The credit_cards collection, in natural order.
CardCollections ==
    {<<>>,
     <<CatalogCard("amber"), CatalogCard("cedar")>>,
     <<Inactive(CatalogCard("amber")), CatalogCard("cedar"), CatalogCard("dune")>>,
     <<Inactive(CatalogCard("cedar"))>>,
     <<CatalogCard("cedar"), CatalogCard("ember")>>}

ComparePayloads ==
    {[mix |-> mix, window |-> window, cards |-> cards] :
        mix \in {<<>>,
                 <<Item("Dining", Number(Usd(300))),
                   Item("Groceries", Number(Usd(700)))>>,
                 <<Item("Dining", Number(Usd(-50)))>>},
        window \in {<<>>, <<90>>, <<-7>>},
        cards \in {<<>>, <<"amber">>, <<"cedar", "amber">>, <<"zinc">>}}

(***************************************************************************)
(* The engine as a state machine: a caller invokes one function with its   *)
(* inputs, the function's value is the result, and the caller returns.     *)
(***************************************************************************)
Init ==
    /\ pc = "idle"
    /\ args = <<>>
    /\ locals = <<>>
    /\ result = <<>>
    /\ database = <<>>

ScoreCardCall ==
    /\ pc = "idle"
    /\ \E card \in CardSet, inp \in ScoreCardInputs :
        /\ args' = [card |-> card, category_mix |-> inp[1],
                    monthly_total |-> inp[2], window_days |-> inp[3]]
        /\ locals' = ScoreCardLocals(card, inp[1], inp[2], inp[3])
        /\ result' = ScoreCardReturn(card, inp[2], locals')
    /\ pc' = "score_card"
    /\ UNCHANGED database

ScoreCatalogCall ==
    /\ pc = "idle"
    /\ \E cards \in Catalogs, mt \in MixesAndTotals, limit \in Limits :
        /\ args' = [cards |-> cards, category_mix |-> mt[1],
                    monthly_total |-> mt[2], window_days |-> 30,
                    limit |-> limit]
        /\ locals' = <<>>
        /\ IF ScoreCatalogRaises(cards, mt[1], mt[2])
           THEN /\ result' = <<>>
                /\ pc' = "score_catalog_raised"
           ELSE /\ result' = ScoreCatalog(cards, mt[1], mt[2], 30, limit)
                /\ pc' = "score_catalog"
    /\ UNCHANGED database

EarnPercentCall ==
    /\ pc = "idle"
    /\ \E product \in CardSet, category \in Categories,
          monthly_spend \in MonthlyTotals :
        /\ product.welcome_offer = <<>>
        /\ product.annual_fee = NoneNum
        /\ args' = [product |-> product, category |-> category,
                    monthly_spend |-> monthly_spend]
        /\ locals' = <<>>
        /\ result' = EarnPercentForProduct(product, category, monthly_spend)
    /\ pc' = "earn_percent_for_product"
    /\ UNCHANGED database

AggregateSpendDetailsCall ==
    /\ pc = "idle"
    /\ \E transactions \in SeqsUpTo(TxnSet, MaxTxns), category_rules \in RuleLists :
        /\ args' = [transactions |-> transactions, category_rules |-> category_rules]
        /\ locals' = SummarizeCategories(transactions)
        /\ result' = AggregateSpendDetails(transactions, category_rules)
    /\ pc' = "aggregate_spend_details"
    /\ UNCHANGED database

NormalizeMixCall ==
    /\ pc = "idle"
    /\ \E raw_mix \in RawMixes :
        /\ args' = [raw_mix |-> raw_mix]
        /\ locals' = [sanitized |-> Sanitize(raw_mix)]
        /\ result' = NormalizeMix(raw_mix)
    /\ pc' = "normalize_mix"
    /\ UNCHANGED database

RecommendationsCall ==
    /\ pc = "idle"
    /\ \E payload \in RecommendationPayloads, docs \in WindowDocs,
          credit_cards \in CardCollections :
        /\ args' = [payload |-> payload, docs |-> docs, credit_cards |-> credit_cards]
        /\ locals' = IF RequestWindow(payload) <= 0 THEN <<>>
                     ELSE RecommendationsLocals(payload, docs, credit_cards,
                                                RequestWindow(payload))
        /\ result' = Recommendations(payload, docs, credit_cards)
    /\ pc' = "recommendations"
    /\ UNCHANGED database

RewardsCompareCall ==
    /\ pc = "idle"
    /\ \E payload \in ComparePayloads, credit_cards \in CardCollections :
        /\ args' = [payload |-> payload, credit_cards |-> credit_cards]
        /\ locals' = RewardsCompareLocals(payload, credit_cards)
        /\ result' = RewardsCompare(payload, credit_cards)
    /\ pc' = "rewards_compare"
    /\ UNCHANGED database

\* Catalog cards of the optimizer: flat, with a Dining rate, with a Costco
\* override, and rotating Groceries at 5% with a cap of 15 or 0 dollars.
OptimizerCard(base_rate, category_rates, rotating, merchant_overrides) ==
    [base_rate |-> base_rate, category_rates |-> category_rates,
     rotating |-> rotating, merchant_overrides |-> merchant_overrides]

Rotating(rate, cap_usd) ==
    <<[rate |-> rate, cap_usd |-> cap_usd, categories |-> {"Groceries"}]>>

OptimizerCards ==
    {OptimizerCard(base_rate, category_rates, rotating, merchant_overrides) :
        base_rate \in {Zero, Pct(1)},
        category_rates \in {<<>>, <<[category |-> "Dining", rate |-> Pct(3)]>>},
        rotating \in {<<>>, Rotating(Pct(5), Usd(15)), Rotating(Pct(5), Usd(0))},
        merchant_overrides \in {<<>>, <<[merchant |-> "COSTCO", rate |-> Pct(2)]>>}}

CapEntry(scope, cap_cents, used_cents) ==
    [scope |-> scope, cap_cents |-> cap_cents, used_cents |-> used_cents]

UserCard(activated, caps) == <<[activated |-> activated, caps |-> caps]>>

\* Not linked, linked but not activated, and activated with the cap untouched,
\* partly used, used up and overdrawn.
UserCards ==
    {<<>>,
     UserCard(FALSE, <<>>),
     UserCard(TRUE, <<>>),
     UserCard(TRUE, <<CapEntry("annual", <<900>>, 0), CapEntry("rotating", <<>>, 500)>>),
     UserCard(TRUE, <<CapEntry("rotating", <<1500>>, 1500)>>),
     UserCard(TRUE, <<CapEntry("rotating", <<1500>>, 2000)>>)}

AmountsCents == {-500, 0, 999, 1000, 2000}

ScoreSingleTransactionCall ==
    /\ pc = "idle"
    /\ \E card \in OptimizerCards, user_card \in UserCards,
          merchant \in {"", "Costco"}, category \in {"", "Groceries", "Dining"},
          amount_cents \in AmountsCents :
        /\ args' = [card |-> card, user_card |-> user_card, merchant |-> merchant,
                    category |-> category, amount_cents |-> amount_cents]
        /\ locals' = ScoreSingleLocals(card, user_card, merchant, category, amount_cents)
        /\ result' = ScoreSingleTransaction(card, user_card, merchant, category,
                                            amount_cents)
    /\ pc' = "score_single_transaction"
    /\ UNCHANGED database

\* Cards for compute_month_earnings: 1% base with up to MaxRules rules, among
\* them two Dining rules and a padded category name, and a card whose rate
\* is not a number.
EarningsRules ==
    {Rule("Dining", Pct(3), Usd(200)),
     Rule("Dining", Pct(3), NoneNum),
     Rule("Groceries", Pct(5), NoneNum),
     Rule("Dining ", Pct(1), NoneNum)}

EarningsCards ==
    {Card("card", Pct(1), rewards, <<>>, NoneNum) :
        rewards \in SeqsUpTo(EarningsRules, MaxRules)}
        \cup {Card("ember", Pct(1), <<Rule("Dining", Malformed, NoneNum)>>, <<>>, NoneNum)}

\* A month of transactions.
EarningsMonths ==
    {<<>>,
     <<Txn(Usd(300), "Dining", "", "Blue Cafe")>>,
     <<Txn(Rat(1234, 100), "Dining", "", "Blue Cafe"),
       Txn(Usd(20), "Groceries", "Corner Mart", "")>>,
     <<Txn(Usd(20), "Groceries", "Corner Mart", ""),
       Txn(Usd(300), "Dining", "", "Blue Cafe"),
       Txn(Usd(20), "Groceries", "Corner Mart", "")>>,
     <<Txn(Usd(20), "dining", "", "Blue Cafe")>>,
     <<Txn(Usd(20), "", "", ""), Txn(Usd(-5), "Groceries", "Corner Mart", "")>>}

ComputeMonthEarningsCall ==
    /\ pc = "idle"
    /\ \E card \in EarningsCards, transactions \in EarningsMonths :
        /\ args' = [card |-> card, transactions |-> transactions]
        /\ locals' = SummarizeSpend(transactions)
        /\ result' = ComputeMonthEarnings(card, transactions)
    /\ pc' = "compute_month_earnings"
    /\ UNCHANGED database

Return ==
    /\ pc # "idle"
    /\ pc' = "idle"
    /\ args' = <<>>
    /\ locals' = <<>>
    /\ result' = <<>>
    /\ UNCHANGED database

Next ==
    \/ ScoreCardCall
    \/ ScoreCatalogCall
    \/ EarnPercentCall
    \/ AggregateSpendDetailsCall
    \/ NormalizeMixCall
    \/ RecommendationsCall
    \/ RewardsCompareCall
    \/ ScoreSingleTransactionCall
    \/ ComputeMonthEarningsCall
    \/ Return

Spec == Init /\ [][Next]_vars

(***************************************************************************)
(* Two callers running the engine's functions at the same time on the same *)
(* card list, mix and transaction list.  Here args holds the shared input  *)
(* objects, and pc, locals and result hold one entry per caller.  A call   *)
(* advances one statement (or one loop iteration) at a time, each reading  *)
(* the inputs as they are at that moment.                                  *)
(***************************************************************************)
Threads == {1, 2}

SharedInputs ==
    {[cards |-> cards, category_mix |-> category_mix, monthly_total |-> Usd(1000),
      window_days |-> 30, limit |-> limit, transactions |-> transactions,
      raw_mix |-> <<Item("Dining", Number(Usd(100))), Item("Gas", Number(Usd(-50))),
                    Item("Travel", Number(Usd(200)))>>] :
        cards \in {<<CatalogCard("amber"), CatalogCard("cedar")>>,
                   <<CatalogCard("amber"), CatalogCard("birch"), CatalogCard("dune")>>,
                   <<CatalogCard("cedar")>>},
        category_mix \in {<<>>, <<Item("Dining", Rat(3, 10)), Item("Other", Rat(7, 10))>>},
        limit \in {0, 2},
        transactions \in {<<Txn(Usd(20), "", "", "")>>,
                          <<Txn(Usd(-5), "Groceries", "Corner Mart", ""),
                            Txn(Usd(20), "Dining", "", "Blue Cafe"),
                            Txn(Usd(20), "Groceries", "Corner Mart", "mart #12")>>}}

SharedInit ==
    /\ args \in SharedInputs
    /\ pc = [t \in Threads |-> "ready"]
    /\ locals = [t \in Threads |-> [fn |-> "none"]]
    /\ result = [t \in Threads |-> <<>>]
    /\ database = <<>>

\* Variant: the sort is applied to the input list, which takes the order of
\* the ranking, and scored is left as built.
SortStatement_SortsCards(names) ==
    LET sorted == SortByNetDesc(names.scored)
    IN [names EXCEPT
           !.cards = [k \in 1..Len(sorted) |->
                         names.cards[CHOOSE i \in 1..Len(names.cards) :
                                         names.cards[i].slug = sorted[k].slug]]]

\* scored.sort(key=net, reverse=True) on the names of score_catalog: the list
\* bound to scored is sorted in place, the list bound to cards is another
\* object.
SortStatement(names) == [names EXCEPT !.scored = SortByNetDesc(@)]

\* score_catalog, scoring.py:168-169: the guard.
SharedScoreCatalogBegin(t) ==
    /\ pc[t] = "ready"
    /\ IF RLe(args.monthly_total, Zero) \/ args.category_mix = <<>>
       THEN /\ pc' = [pc EXCEPT ![t] = "done"]
            /\ result' = [result EXCEPT ![t] = <<>>]
       ELSE /\ pc' = [pc EXCEPT ![t] = "scoring"]
            /\ result' = result
    /\ locals' = [locals EXCEPT ![t] = [fn |-> "score_catalog", scored |-> <<>>]]
    /\ args' = args
    /\ UNCHANGED database

\* One iteration of the comprehension of scoring.py:171.
SharedScoreNext(t) ==
    /\ pc[t] = "scoring"
    /\ Len(locals[t].scored) < Len(args.cards)
    /\ locals' = [locals EXCEPT
                     ![t].scored =
                         Append(@, ScoreCard(args.cards[Len(@) + 1], args.category_mix,
                                             args.monthly_total, args.window_days))]
    /\ args' = args
    /\ UNCHANGED <<pc, result>>
    /\ UNCHANGED database

\* scoring.py:172, once the comprehension is exhausted.
SharedSort(t) ==
    /\ pc[t] = "scoring"
    /\ Len(locals[t].scored) >= Len(args.cards)
    /\ LET after == SortStatement([cards |-> args.cards, scored |-> locals[t].scored])
       IN /\ args' = [args EXCEPT !.cards = after.cards]
          /\ locals' = [locals EXCEPT ![t].scored = after.scored]
    /\ pc' = [pc EXCEPT ![t] = "sorted"]
    /\ result' = result
    /\ UNCHANGED database

\* scoring.py:173-175
SharedReturnRanked(t) ==
    /\ pc[t] = "sorted"
    /\ result' = [result EXCEPT
                     ![t] = IF args.limit > 0 THEN Truncate(locals[t].scored, args.limit)
                            ELSE locals[t].scored]
    /\ pc' = [pc EXCEPT ![t] = "done"]
    /\ args' = args
    /\ locals' = locals
    /\ UNCHANGED database

\* score_card on the first card of the list.
SharedScoreCard(t) ==
    /\ pc[t] = "ready"
    /\ result' = [result EXCEPT
                     ![t] = ScoreCard(args.cards[1], args.category_mix,
                                      args.monthly_total, args.window_days)]
    /\ locals' = [locals EXCEPT ![t] = [fn |-> "score_card"]]
    /\ pc' = [pc EXCEPT ![t] = "done"]
    /\ args' = args
    /\ UNCHANGED database

\* aggregate_spend_details, spend.py:165: the first pass over the transactions.
SharedSummarize(t) ==
    /\ pc[t] = "ready"
    /\ locals' = [locals EXCEPT
                     ![t] = [fn |-> "aggregate_spend_details",
                             summary |-> SummarizeCategories(args.transactions)]]
    /\ pc' = [pc EXCEPT ![t] = "summarized"]
    /\ args' = args
    /\ result' = result
    /\ UNCHANGED database

\* aggregate_spend_details, spend.py:167-216: the rows and the second pass.
SharedMerchants(t) ==
    /\ pc[t] = "summarized"
    /\ LET summary == locals[t].summary
       IN result' = [result EXCEPT
                        ![t] = [total |-> Round2(summary.total),
                                transaction_count |-> Len(args.transactions),
                                categories |-> CategoryRows(summary.total,
                                                            summary.by_category,
                                                            summary.counts),
                                merchants |-> MerchantRows(args.transactions, <<>>)]]
    /\ pc' = [pc EXCEPT ![t] = "done"]
    /\ args' = args
    /\ locals' = locals
    /\ UNCHANGED database

SharedNormalizeMix(t) ==
    /\ pc[t] = "ready"
    /\ result' = [result EXCEPT ![t] = NormalizeMix(args.raw_mix)]
    /\ locals' = [locals EXCEPT ![t] = [fn |-> "normalize_mix"]]
    /\ pc' = [pc EXCEPT ![t] = "done"]
    /\ args' = args
    /\ UNCHANGED database

SharedNext ==
    \E t \in Threads :
        \/ SharedScoreCatalogBegin(t)
        \/ SharedScoreNext(t)
        \/ SharedSort(t)
        \/ SharedReturnRanked(t)
        \/ SharedScoreCard(t)
        \/ SharedSummarize(t)
        \/ SharedMerchants(t)
        \/ SharedNormalizeMix(t)

SharedSpec == SharedInit /\ [][SharedNext]_vars

(***************************************************************************)
(* app.py: the AP2 mandate routes, one request after another.              *)
(*                                                                         *)
(* All requests are the owner's.  database holds the collections mandates, *)
(* applications and accounts as lists in insertion order (a mandate's id   *)
(* is its position) and credit_cards as the set of catalog slugs.  pc is   *)
(* the handler of the last request, args its mandate id and result its     *)
(* response.                                                               *)
(***************************************************************************)
MaxMandates == 2

\* The document ap2_create_mandate inserts; data carries the intent and the
\* product slug ("" when missing).
Mandate(type, intent, product_slug) ==
    [type |-> type, intent |-> intent, product_slug |-> product_slug,
     status |-> "pending_approval", signed_by |-> 0]

Application(product_slug, status) == [product_slug |-> product_slug, status |-> status]

Account(card_product_slug, account_mask, status) ==
    [account_type |-> "credit_card", card_product_slug |-> card_product_slug,
     account_mask |-> account_mask, status |-> status]

\* The JSON response: HTTP code, and the status field of its body ("" on an
\* error).
Response(code, status) == [code |-> code, status |-> status]

\* mandates.find_one({"_id": object_id, "userId": user["_id"]})
FindMandate(db, mandate_id) ==
    IF mandate_id \in 1..Len(db.mandates) THEN <<db.mandates[mandate_id]>> ELSE <<>>

\* mandates.update_one({"_id": ...}, {"$set": {"status": status}})
SetMandateStatus(db, mandate_id, status) ==
    [db EXCEPT !.mandates[mandate_id].status = status]

\* The positions of the documents of a collection that match.
ApplicationsOf(db, product_slug) ==
    {i \in 1..Len(db.applications) : db.applications[i].product_slug = product_slug}

AccountsOf(db, product_slug) ==
    {i \in 1..Len(db.accounts) :
        /\ db.accounts[i].account_type = "credit_card"
        /\ db.accounts[i].card_product_slug = product_slug}

\* find_one returns the first match in insertion order.
First(positions) == CHOOSE i \in positions : \A j \in positions : i <= j

\* ap2_approve_mandate (app.py:1408-1431): database and response after it.
ApproveMandate(db, mandate_id) ==
    LET mandate == FindMandate(db, mandate_id)
    IN IF mandate = <<>> THEN [database |-> db, result |-> Response(404, "")]
       ELSE IF mandate[1].status \in {"approved", "executed"}
       THEN [database |-> db, result |-> Response(200, mandate[1].status)]
       ELSE IF mandate[1].status = "declined"
       THEN [database |-> db, result |-> Response(400, "")]
       ELSE [database |->
                 [db EXCEPT !.mandates[mandate_id].status = "approved",
                            !.mandates[mandate_id].signed_by = @ + 1],
             result |-> Response(200, "approved")]

\* Variant: an executed mandate can still be declined.
DeclineMandate_NoExecutedCheck(db, mandate_id) ==
    LET mandate == FindMandate(db, mandate_id)
    IN IF mandate = <<>> THEN [database |-> db, result |-> Response(404, "")]
       ELSE [database |-> SetMandateStatus(db, mandate_id, "declined"),
             result |-> Response(200, "declined")]

\* ap2_decline_mandate (app.py:1433-1449)
DeclineMandate(db, mandate_id) ==
    LET mandate == FindMandate(db, mandate_id)
    IN IF mandate = <<>> THEN [database |-> db, result |-> Response(404, "")]
       ELSE IF mandate[1].status = "executed"
       THEN [database |-> db, result |-> Response(400, "")]
       ELSE [database |-> SetMandateStatus(db, mandate_id, "declined"),
             result |-> Response(200, "declined")]

\* app.py:1508-1546: the application of the slug is set to approved, or an
\* approved one is inserted.
UpsertApplication(db, product_slug) ==
    IF ApplicationsOf(db, product_slug) # {}
    THEN [db EXCEPT !.applications[First(ApplicationsOf(db, product_slug))].status =
                        "approved"]
    ELSE [db EXCEPT !.applications = Append(@, Application(product_slug, "approved"))]

\* app.py:1555-1600: the account of the product is updated with the new mask,
\* or an account is inserted.
UpsertAccount(db, product_slug, last4) ==
    IF AccountsOf(db, product_slug) # {}
    THEN [db EXCEPT !.accounts[First(AccountsOf(db, product_slug))].account_mask = last4,
                    !.accounts[First(AccountsOf(db, product_slug))].status = "Active"]
    ELSE [db EXCEPT !.accounts = Append(@, Account(product_slug, last4, "Active"))]

\* ap2_execute_mandate (app.py:1474-1623) with last4 the mask drawn by
\* _demo_random_last4.
ExecuteMandate(db, mandate_id, last4) ==
    LET mandate == FindMandate(db, mandate_id)
    IN IF mandate = <<>> THEN [database |-> db, result |-> Response(404, "")]
       ELSE IF mandate[1].status # "approved"
       THEN [database |-> db, result |-> Response(400, "")]
       ELSE IF mandate[1].type = "intent" /\ mandate[1].intent = "apply_card"
       THEN IF mandate[1].product_slug = "" \/ mandate[1].product_slug \notin db.credit_cards
            THEN [database |-> db, result |-> Response(400, "")]
            ELSE [database |->
                      SetMandateStatus(
                          UpsertAccount(UpsertApplication(db, mandate[1].product_slug),
                                        mandate[1].product_slug, last4),
                          mandate_id, "executed"),
                  result |-> Response(200, "executed")]
       ELSE [database |-> db, result |-> Response(400, "")]

\* _demo_random_last4 (app.py:210-222): a mask none of the user's credit card
\* accounts has.
Masks == {"0007", "0420", "9981"}

FreeMasks(db) ==
    Masks \ {db.accounts[i].account_mask : i \in 1..Len(db.accounts)}

MandateDocuments ==
    {Mandate("intent", "apply_card", "amber"),
     Mandate("intent", "apply_card", "birch"),
     Mandate("intent", "apply_card", ""),
     Mandate("intent", "apply_card", "ghost"),
     Mandate("intent", "pay_bill", ""),
     Mandate("payment", "apply_card", "amber")}

MandateInit ==
    /\ pc = "idle"
    /\ args = <<>>
    /\ locals = <<>>
    /\ result = <<>>
    /\ database = [mandates |-> <<>>, credit_cards |-> {"amber", "birch"},
                   applications |-> <<>>, accounts |-> <<>>]

\* ap2_create_mandate (app.py:1379-1406)
Ap2CreateMandate ==
    /\ Len(database.mandates) < MaxMandates
    /\ \E document \in MandateDocuments :
        database' = [database EXCEPT !.mandates = Append(@, document)]
    /\ pc' = "ap2_create_mandate"
    /\ args' = [mandate_id |-> Len(database.mandates) + 1]
    /\ result' = Response(201, "pending_approval")
    /\ UNCHANGED locals

Ap2ApproveMandate ==
    /\ \E mandate_id \in 1..(Len(database.mandates) + 1) :
        /\ args' = [mandate_id |-> mandate_id]
        /\ database' = ApproveMandate(database, mandate_id).database
        /\ result' = ApproveMandate(database, mandate_id).result
    /\ pc' = "ap2_approve_mandate"
    /\ UNCHANGED locals

Ap2DeclineMandate ==
    /\ \E mandate_id \in 1..(Len(database.mandates) + 1) :
        /\ args' = [mandate_id |-> mandate_id]
        /\ database' = DeclineMandate(database, mandate_id).database
        /\ result' = DeclineMandate(database, mandate_id).result
    /\ pc' = "ap2_decline_mandate"
    /\ UNCHANGED locals

Ap2ExecuteMandate ==
    /\ \E mandate_id \in 1..(Len(database.mandates) + 1), last4 \in FreeMasks(database) :
        /\ args' = [mandate_id |-> mandate_id]
        /\ database' = ExecuteMandate(database, mandate_id, last4).database
        /\ result' = ExecuteMandate(database, mandate_id, last4).result
    /\ pc' = "ap2_execute_mandate"
    /\ UNCHANGED locals

MandateNext ==
    \/ Ap2CreateMandate
    \/ Ap2ApproveMandate
    \/ Ap2DeclineMandate
    \/ Ap2ExecuteMandate

MandateSpec == MandateInit /\ [][MandateNext]_vars

(***************************************************************************)
(* app.py: two execute requests for one mandate, handled by two threads.   *)
(* Each database call of ap2_execute_mandate is one step; between two      *)
(* steps of a request the other request may run.  args is the mandate id;  *)
(* pc, locals and result are per request.                                  *)
(***************************************************************************)
\* The unique index userId_1_product_slug_1 of applications (db.py:157-163):
\* insert_one raises DuplicateKeyError when the slug has an application.
ApplicationInsertConflicts(db, product_slug) == ApplicationsOf(db, product_slug) # {}

\* The unique index userId_1_account_type_1_account_mask_1 of accounts
\* (db.py:91-97): a write raises DuplicateKeyError when another credit card
\* account of the user has the mask.  position is 0 for an insert.
AccountMaskConflicts(db, position, last4) ==
    \E i \in 1..Len(db.accounts) :
        /\ i # position
        /\ db.accounts[i].account_type = "credit_card"
        /\ db.accounts[i].account_mask = last4

Approved(mandate) == [mandate EXCEPT !.status = "approved", !.signed_by = 1]

NoLocals == [mandate |-> <<>>, application |-> 0, existing_account |-> 0, last4 |-> ""]

ExecuteInit ==
    /\ args = [mandate_id |-> 1]
    /\ pc = [t \in Threads |-> "find_mandate"]
    /\ locals = [t \in Threads |-> NoLocals]
    /\ result = [t \in Threads |-> <<>>]
    /\ \E mandate \in {Approved(Mandate("intent", "apply_card", "amber")),
                       Approved(Mandate("intent", "apply_card", "ghost")),
                       Approved(Mandate("payment", "apply_card", "amber")),
                       Mandate("intent", "apply_card", "amber")},
          applications \in {<<>>, <<Application("amber", "started")>>},
          accounts \in {<<>>, <<Account("amber", "0007", "Active")>>,
                        <<Account("birch", "0007", "Active")>>} :
        database = [mandates |-> <<mandate>>, credit_cards |-> {"amber", "birch"},
                    applications |-> applications, accounts |-> accounts]

\* app.py:1478-1504: the mandate is read and checked, the product looked up.
ExecFindMandate(t) ==
    /\ pc[t] = "find_mandate"
    /\ LET mandate == FindMandate(database, args.mandate_id)
       IN IF /\ mandate # <<>>
             /\ mandate[1].status = "approved"
             /\ mandate[1].type = "intent" /\ mandate[1].intent = "apply_card"
             /\ mandate[1].product_slug \in database.credit_cards
          THEN /\ pc' = [pc EXCEPT ![t] = "find_application"]
               /\ locals' = [locals EXCEPT ![t].mandate = mandate]
               /\ result' = result
          ELSE /\ pc' = [pc EXCEPT ![t] = "done"]
               /\ locals' = locals
               /\ result' = [result EXCEPT
                                ![t] = Response(IF mandate = <<>> THEN 404 ELSE 400, "")]
    /\ UNCHANGED <<args, database>>

\* app.py:1508-1513
ExecFindApplication(t) ==
    /\ pc[t] = "find_application"
    /\ LET found == ApplicationsOf(database, locals[t].mandate[1].product_slug)
       IN locals' = [locals EXCEPT
                        ![t].application = IF found = {} THEN 0 ELSE First(found)]
    /\ pc' = [pc EXCEPT ![t] = "write_application"]
    /\ UNCHANGED <<args, result, database>>

\* app.py:1526-1546: update_one on the application found, else insert_one.
ExecWriteApplication(t) ==
    /\ pc[t] = "write_application"
    /\ LET product_slug == locals[t].mandate[1].product_slug
       IN IF locals[t].application # 0
          THEN /\ database' = [database EXCEPT
                                  !.applications[locals[t].application].status = "approved"]
               /\ pc' = [pc EXCEPT ![t] = "find_account"]
               /\ result' = result
          ELSE IF ApplicationInsertConflicts(database, product_slug)
          THEN /\ database' = database
               /\ pc' = [pc EXCEPT ![t] = "raised"]
               /\ result' = [result EXCEPT ![t] = Response(500, "")]
          ELSE /\ database' = [database EXCEPT
                                  !.applications =
                                      Append(@, Application(product_slug, "approved"))]
               /\ pc' = [pc EXCEPT ![t] = "find_account"]
               /\ result' = result
    /\ UNCHANGED <<args, locals>>

\* app.py:1555-1561
ExecFindAccount(t) ==
    /\ pc[t] = "find_account"
    /\ LET found == AccountsOf(database, locals[t].mandate[1].product_slug)
       IN locals' = [locals EXCEPT
                        ![t].existing_account = IF found = {} THEN 0 ELSE First(found)]
    /\ pc' = [pc EXCEPT ![t] = "draw_mask"]
    /\ UNCHANGED <<args, result, database>>

\* app.py:1564: _demo_random_last4 reads the accounts and draws a free mask.
ExecDrawMask(t) ==
    /\ pc[t] = "draw_mask"
    /\ \E last4 \in FreeMasks(database) :
        locals' = [locals EXCEPT ![t].last4 = last4]
    /\ pc' = [pc EXCEPT ![t] = "write_account"]
    /\ UNCHANGED <<args, result, database>>

\* app.py:1582-1600: update_one on the account found, else insert_one.
ExecWriteAccount(t) ==
    /\ pc[t] = "write_account"
    /\ LET product_slug == locals[t].mandate[1].product_slug
           position == locals[t].existing_account
           last4 == locals[t].last4
       IN IF AccountMaskConflicts(database, position, last4)
          THEN /\ database' = database
               /\ pc' = [pc EXCEPT ![t] = "raised"]
               /\ result' = [result EXCEPT ![t] = Response(500, "")]
          ELSE /\ database' =
                      IF position # 0
                      THEN [database EXCEPT !.accounts[position].account_mask = last4,
                                            !.accounts[position].status = "Active"]
                      ELSE [database EXCEPT
                               !.accounts =
                                   Append(@, Account(product_slug, last4, "Active"))]
               /\ pc' = [pc EXCEPT ![t] = "mark_executed"]
               /\ result' = result
    /\ UNCHANGED <<args, locals>>

\* app.py:1616-1621
ExecMarkExecuted(t) ==
    /\ pc[t] = "mark_executed"
    /\ database' = SetMandateStatus(database, args.mandate_id, "executed")
    /\ pc' = [pc EXCEPT ![t] = "done"]
    /\ result' = [result EXCEPT ![t] = Response(200, "executed")]
    /\ UNCHANGED <<args, locals>>

ExecuteNext ==
    \E t \in Threads :
        \/ ExecFindMandate(t)
        \/ ExecFindApplication(t)
        \/ ExecWriteApplication(t)
        \/ ExecFindAccount(t)
        \/ ExecDrawMask(t)
        \/ ExecWriteAccount(t)
        \/ ExecMarkExecuted(t)

ExecuteSpec == ExecuteInit /\ [][ExecuteNext]_vars

(***************************************************************************)
(* routes/applications.py: start_application and approve_application, one  *)
(* request after another, all by one user.  An application's id is its     *)
(* position in the collection; database.active_cards are the slugs of the  *)
(* catalog products with active = True.  pc is the handler of the last     *)
(* request, args its payload and result its response.                      *)
(***************************************************************************)
ACTIVE_STATUSES == {"started", "submitted", "approved"}

\* str.strip() on the slugs in use
StripSlug(slug) == IF slug = " amber " THEN "amber" ELSE slug

\* SLUG_PATTERN.fullmatch(slug) on the slugs in use
SlugPatternMatches(slug) == slug \in {"amber", "birch", "cedar", "dune", "ghost"}

\* The response of the application routes: HTTP code, and the id and status
\* of the body (0 and "" when it has none).
ApplicationResponse(code, id, status) == [code |-> code, id |-> id, status |-> status]

\* applications.find_one({userId, product_slug, status: {"$in": ACTIVE_STATUSES}})
ActiveApplicationsOf(db, product_slug) ==
    {i \in ApplicationsOf(db, product_slug) : db.applications[i].status \in ACTIVE_STATUSES}

\* Variant: the existing application is not looked up.
StartApplication_NoLookup(db, raw_slug) ==
    LET slug == StripSlug(raw_slug)
    IN IF slug = "" \/ ~SlugPatternMatches(slug) \/ slug \notin db.active_cards
       THEN [database |-> db, result |-> ApplicationResponse(400, 0, "")]
       ELSE IF ApplicationInsertConflicts(db, slug)
       THEN [database |-> db, result |-> ApplicationResponse(500, 0, "")]
       ELSE [database |->
                 [db EXCEPT !.applications = Append(@, Application(slug, "started"))],
             result |-> ApplicationResponse(201, Len(db.applications) + 1, "started")]

\* start_application (applications.py:25-55): database and response after it.
StartApplication(db, raw_slug) ==
    LET slug == StripSlug(raw_slug)
        existing == ActiveApplicationsOf(db, slug)
    IN IF slug = "" \/ ~SlugPatternMatches(slug) \/ slug \notin db.active_cards
       THEN [database |-> db, result |-> ApplicationResponse(400, 0, "")]
       ELSE IF existing # {}
       THEN [database |-> db,
             result |-> ApplicationResponse(200, First(existing),
                                            db.applications[First(existing)].status)]
       ELSE IF ApplicationInsertConflicts(db, slug)
       THEN [database |-> db, result |-> ApplicationResponse(500, 0, "")]
       ELSE [database |->
                 [db EXCEPT !.applications = Append(@, Application(slug, "started"))],
             result |-> ApplicationResponse(201, Len(db.applications) + 1, "started")]

\* approve_application (applications.py:57-113): the product's account is
\* inserted with an empty mask or set to Applied, then the application is
\* set to approved.  The insert raises when another credit card account of
\* the user has the empty mask.
ApproveApplication(db, application_id) ==
    IF application_id = 0
    THEN [database |-> db, result |-> ApplicationResponse(400, 0, "")]
    ELSE IF application_id \notin 1..Len(db.applications)
    THEN [database |-> db, result |-> ApplicationResponse(404, 0, "")]
    ELSE LET slug == db.applications[application_id].product_slug
             existing == AccountsOf(db, slug)
         IN IF slug \notin db.credit_cards
            THEN [database |-> db, result |-> ApplicationResponse(404, 0, "")]
            ELSE IF existing = {} /\ AccountMaskConflicts(db, 0, "")
            THEN [database |-> db, result |-> ApplicationResponse(500, 0, "")]
            ELSE LET with_account ==
                         IF existing = {}
                         THEN [db EXCEPT !.accounts = Append(@, Account(slug, "", "Applied"))]
                         ELSE [db EXCEPT !.accounts[First(existing)].status = "Applied"]
                 IN [database |->
                         [with_account EXCEPT
                             !.applications[application_id].status = "approved"],
                     result |-> ApplicationResponse(200, 0, "")]

StartSlugs == {"amber", " amber ", "birch", "dune", "cedar", "ghost", "Amber!", ""}

ApplicationInit ==
    /\ pc = "idle"
    /\ args = <<>>
    /\ locals = <<>>
    /\ result = <<>>
    /\ \E accounts \in {<<>>, <<Account("dune", "0007", "Active")>>,
                        <<Account("birch", "", "Active")>>} :
        database = [credit_cards |-> {"amber", "birch", "cedar", "dune"},
                    active_cards |-> {"amber", "birch", "dune"},
                    applications |-> <<>>, accounts |-> accounts]

StartApplicationCall ==
    /\ \E slug \in StartSlugs :
        /\ args' = [slug |-> slug, application_id |-> 0]
        /\ database' = StartApplication(database, slug).database
        /\ result' = StartApplication(database, slug).result
    /\ pc' = "start_application"
    /\ UNCHANGED locals

ApproveApplicationCall ==
    /\ \E application_id \in 0..(Len(database.applications) + 1) :
        /\ args' = [slug |-> "", application_id |-> application_id]
        /\ database' = ApproveApplication(database, application_id).database
        /\ result' = ApproveApplication(database, application_id).result
    /\ pc' = "approve_application"
    /\ UNCHANGED locals

ApplicationNext ==
    \/ StartApplicationCall
    \/ ApproveApplicationCall

ApplicationSpec == ApplicationInit /\ [][ApplicationNext]_vars

(***************************************************************************)
(* app.py: check_and_notify_budget called by two threads for one user and  *)
(* month.  database holds the month's budget document (<<>> when there is  *)
(* none), the month's transactions and the number of emails sent; a call   *)
(* is the steps: read the budget, sum the spend, send, set the flag,       *)
(* return.  pc, locals and result are per thread, args counts the calls    *)
(* each thread has made.                                                   *)
(***************************************************************************)
MaxCalls == 2

Budget(amount, notified) == <<[amount |-> amount, notified |-> notified]>>

\* calc_month_spend (app.py:225-241): the positive amounts, rounded.
CalcMonthSpend(rows) ==
    Round2(RSum([i \in 1..Len(rows) |->
                    IF RLt(Zero, RawAmount(rows[i])) THEN RawAmount(rows[i]) ELSE Zero]))

\* send_email_smtp either delivers the message and returns, or raises.
SendEmailOutcomes == {"sent", "raised"}

\* The local variables of a call before it has read anything.
NoBudgetLocals == [budget_doc |-> <<>>, budget |-> Zero, spend |-> Zero, over |-> FALSE]

BudgetInit ==
    /\ args = [t \in Threads |-> 0]
    /\ pc = [t \in Threads |-> "ready"]
    /\ locals = [t \in Threads |-> NoBudgetLocals]
    /\ result = [t \in Threads |-> <<>>]
    /\ \E budgets \in {<<>>, Budget(Usd(0), FALSE), Budget(Usd(100), FALSE),
                       Budget(Usd(100), TRUE), Budget(Usd(500), FALSE)},
          transactions \in {<<Txn(Usd(300), "Dining", "", "Blue Cafe")>>,
                            <<Txn(Usd(20), "Dining", "", "Blue Cafe"),
                              Txn(Usd(-5), "Groceries", "Corner Mart", "")>>} :
        database = [budgets |-> budgets, transactions |-> transactions, outbox |-> 0]

\* app.py:246-247: budget_doc and budget
BudgetRead(t) ==
    /\ pc[t] = "ready"
    /\ args[t] < MaxCalls
    /\ args' = [args EXCEPT ![t] = @ + 1]
    /\ locals' = [locals EXCEPT
                     ![t] = [budget_doc |-> database.budgets,
                             budget |-> IF database.budgets = <<>> THEN Zero
                                        ELSE database.budgets[1].amount,
                             spend |-> Zero, over |-> FALSE]]
    /\ pc' = [pc EXCEPT ![t] = "spend"]
    /\ UNCHANGED <<result, database>>

\* app.py:248-249: spend and over
BudgetSpend(t) ==
    /\ pc[t] = "spend"
    /\ LET spend == CalcMonthSpend(database.transactions)
           over == RLt(Zero, locals[t].budget) /\ RLt(locals[t].budget, spend)
       IN /\ locals' = [locals EXCEPT ![t].spend = spend, ![t].over = over]
          /\ pc' = [pc EXCEPT
                       ![t] = IF /\ over /\ locals[t].budget_doc # <<>>
                                 /\ ~locals[t].budget_doc[1].notified
                              THEN "send" ELSE "return"]
    /\ UNCHANGED <<args, result, database>>

\* app.py:260: send_email_smtp; when it raises the call ends without a
\* summary.
BudgetSend(t) ==
    /\ pc[t] = "send"
    /\ \E outcome \in SendEmailOutcomes :
        IF outcome = "sent"
        THEN /\ database' = [database EXCEPT !.outbox = @ + 1]
             /\ pc' = [pc EXCEPT ![t] = "set_flag"]
             /\ result' = result
        ELSE /\ database' = database
             /\ pc' = [pc EXCEPT ![t] = "ready"]
             /\ result' = [result EXCEPT ![t] = <<>>]
    /\ UNCHANGED <<args, locals>>

\* app.py:261-264: budgets.update_one sets notified
BudgetSetFlag(t) ==
    /\ pc[t] = "set_flag"
    /\ database' = [database EXCEPT !.budgets[1].notified = TRUE]
    /\ pc' = [pc EXCEPT ![t] = "return"]
    /\ UNCHANGED <<args, locals, result>>

\* app.py:266-275: the summary returned, built from the document as read
BudgetReturn(t) ==
    /\ pc[t] = "return"
    /\ result' = [result EXCEPT
                     ![t] = <<[budget |-> Round2(locals[t].budget),
                               spend |-> locals[t].spend,
                               over |-> locals[t].over,
                               notified |-> /\ locals[t].budget_doc # <<>>
                                            /\ locals[t].budget_doc[1].notified]>>]
    /\ pc' = [pc EXCEPT ![t] = "ready"]
    /\ UNCHANGED <<args, locals, database>>

BudgetNext ==
    \E t \in Threads :
        \/ BudgetRead(t)
        \/ BudgetSpend(t)
        \/ BudgetSend(t)
        \/ BudgetSetFlag(t)
        \/ BudgetReturn(t)

BudgetSpec == BudgetInit /\ [][BudgetNext]_vars

(***************************************************************************)
(* app.py: get_or_create_user (the copy in core/users.py differs only in   *)
(* when it overwrites the name), called by two request threads.            *)
(* database.users is the collection in insertion order, a document's _id   *)
(* its position; a missing email or name is "".  A call is the steps:      *)
(* find, then insert (and re-read after a DuplicateKeyError) or update.    *)
(* pc, locals and result are per thread, args counts the calls each thread *)
(* has made.                                                               *)
(***************************************************************************)
TokenPayload(sub, email, name, email_verified) ==
    [sub |-> sub, email |-> email, name |-> name, email_verified |-> email_verified]

UserDocument(auth0_id, email, name, email_verified) ==
    [auth0_id |-> auth0_id, email |-> email, name |-> name,
     email_verified |-> email_verified]

\* email.split("@")[0] on the addresses in use
LocalPart(email) ==
    IF email = "ann@example.com" THEN "ann"
    ELSE IF email = "bo@example.com" THEN "bo"
    ELSE email

\* payload.get("name") or the local part of the email, else None
TokenName(payload) ==
    IF payload.name # "" THEN payload.name ELSE LocalPart(payload.email)

\* users.find_one({"auth0_id": auth0_id}): the _id, 0 for None
FindUser(db, auth0_id) ==
    LET found == {i \in 1..Len(db.users) : db.users[i].auth0_id = auth0_id}
    IN IF found = {} THEN 0 ELSE First(found)

\* Variant: the index on auth0_id is not unique.
UserWriteConflicts_EmailOnly(db, position, document) ==
    \E i \in 1..Len(db.users) :
        i # position /\ db.users[i].email = document.email

\* The unique indexes of users on auth0_id and on email (db.py:89-90): a
\* write raises DuplicateKeyError when another document has the auth0_id or
\* the email (a None email is a value of the sparse index as well).
\* position is 0 for an insert.
UserWriteConflicts(db, position, document) ==
    \E i \in 1..Len(db.users) :
        /\ i # position
        /\ \/ db.users[i].auth0_id = document.auth0_id
           \/ db.users[i].email = document.email

\* The document after the $set of app.py:446-463.
UpdatedUser(user_doc, payload) ==
    [user_doc EXCEPT
        !.email = IF payload.email # "" THEN payload.email ELSE @,
        !.name = IF @ = "" /\ TokenName(payload) # "" THEN TokenName(payload) ELSE @,
        !.email_verified = payload.email_verified]

UserPayloads ==
    {TokenPayload("auth0|ann", "ann@example.com", "Ann", TRUE),
     TokenPayload("auth0|ann", "ann@example.com", "", FALSE),
     TokenPayload("auth0|ann", "", "", FALSE),
     TokenPayload("google|ann", "ann@example.com", "Ann", TRUE),
     TokenPayload("auth0|bo", "", "", FALSE),
     TokenPayload("", "bo@example.com", "Bo", TRUE)}

\* What a call returned: the _id of the document, or the exception raised.
UserResult(outcome, id) == [outcome |-> outcome, id |-> id]

NoUserLocals == [payload |-> TokenPayload("", "", "", FALSE), user_doc |-> 0]

UserInit ==
    /\ args = [t \in Threads |-> 0]
    /\ pc = [t \in Threads |-> "ready"]
    /\ locals = [t \in Threads |-> NoUserLocals]
    /\ result = [t \in Threads |-> UserResult("none", 0)]
    /\ \E users \in {<<>>, <<UserDocument("auth0|cy", "", "", FALSE)>>} :
        database = [users |-> users]

\* app.py:417-427: the subject is checked and the user looked up.
UserFind(t) ==
    /\ pc[t] = "ready"
    /\ args[t] < MaxCalls
    /\ args' = [args EXCEPT ![t] = @ + 1]
    /\ \E payload \in UserPayloads :
        IF payload.sub = ""
        THEN /\ locals' = [locals EXCEPT ![t] = [payload |-> payload, user_doc |-> 0]]
             /\ result' = [result EXCEPT ![t] = UserResult("Unauthorized", 0)]
             /\ pc' = pc
        ELSE /\ locals' = [locals EXCEPT
                              ![t] = [payload |-> payload,
                                      user_doc |-> FindUser(database, payload.sub)]]
             /\ result' = [result EXCEPT ![t] = UserResult("none", 0)]
             /\ pc' = [pc EXCEPT
                          ![t] = IF FindUser(database, payload.sub) = 0
                                 THEN "insert" ELSE "update"]
    /\ UNCHANGED database

\* app.py:428-444: insert_one, returning the new document unless the insert
\* raises DuplicateKeyError.
UserInsert(t) ==
    /\ pc[t] = "insert"
    /\ LET payload == locals[t].payload
           new_user == UserDocument(payload.sub, payload.email, TokenName(payload),
                                    payload.email_verified)
       IN IF UserWriteConflicts(database, 0, new_user)
          THEN /\ database' = database
               /\ pc' = [pc EXCEPT ![t] = "reread"]
               /\ result' = result
               /\ locals' = locals
          ELSE /\ database' = [database EXCEPT !.users = Append(@, new_user)]
               /\ pc' = [pc EXCEPT ![t] = "ready"]
               /\ locals' = [locals EXCEPT ![t].user_doc = Len(database.users) + 1]
               /\ result' = [result EXCEPT
                                ![t] = UserResult("returned", Len(database.users) + 1)]
    /\ UNCHANGED args

\* app.py:440-441 and 470-471: the lookup after DuplicateKeyError
UserReread(t) ==
    /\ pc[t] = "reread"
    /\ LET user_doc == FindUser(database, locals[t].payload.sub)
       IN /\ locals' = [locals EXCEPT ![t].user_doc = user_doc]
          /\ result' = [result EXCEPT
                           ![t] = IF user_doc = 0 THEN UserResult("Unauthorized", 0)
                                  ELSE UserResult("returned", user_doc)]
    /\ pc' = [pc EXCEPT ![t] = "ready"]
    /\ UNCHANGED <<args, database>>

\* app.py:445-468: the document found is brought up to date with the token.
UserUpdate(t) ==
    /\ pc[t] = "update"
    /\ LET position == locals[t].user_doc
           updated == UpdatedUser(database.users[position], locals[t].payload)
       IN IF updated # database.users[position]
             /\ UserWriteConflicts(database, position, updated)
          THEN /\ database' = database
               /\ result' = [result EXCEPT ![t] = UserResult("DuplicateKeyError", 0)]
          ELSE /\ database' = [database EXCEPT !.users[position] = updated]
               /\ result' = [result EXCEPT ![t] = UserResult("returned", position)]
    /\ pc' = [pc EXCEPT ![t] = "ready"]
    /\ UNCHANGED <<args, locals>>

UserNext ==
    \E t \in Threads :
        \/ UserFind(t)
        \/ UserInsert(t)
        \/ UserReread(t)
        \/ UserUpdate(t)

UserSpec == UserInit /\ [][UserNext]_vars

(***************************************************************************)
(* Properties.                                                             *)
(***************************************************************************)
InScoreCard == pc = "score_card"

\* The reward formula the contract states, written out from the arguments:
\* base_cashback * monthly_total
\*   + sum over the card's reward rules of max(rate - base_cashback, 0) * eligible_spend
StatedMonthlyReward ==
    LET base == FloatOrZero(args.card.base_cashback)
        rules == FormatRewards(args.card.rewards)
    IN RAdd(RMul(base, args.monthly_total),
            RSum([i \in 1..Len(rules) |->
                     RMul(RMax(RSub(rules[i].rate, base), Zero),
                          locals.bonus_rows[i].eligible_spend)]))

StatedAnnualReward ==
    RAdd(RMul(Int2Rat(12), StatedMonthlyReward), locals.welcome_value)

StatedNet == RSub(StatedAnnualReward, FloatOrZero(args.card.annual_fee))

\* C1 as stated: the returned monthly_reward, annual_reward and net satisfy
\* monthly_reward = base*monthly_total + sum of max(rate-base,0)*eligible_spend,
\* annual_reward = 12*monthly_reward + welcome_value, net = annual_reward - fee.
C1_ReturnedExact ==
    InScoreCard =>
        /\ result.monthly_reward = StatedMonthlyReward
        /\ result.annual_reward =
               RAdd(RMul(Int2Rat(12), result.monthly_reward), locals.welcome_value)
        /\ result.net = RSub(result.annual_reward, FloatOrZero(args.card.annual_fee))

\* C1 amended: score_card returns each of the three amounts rounded to two
\* decimals, every one computed from the unrounded monthly reward:
\* monthly_reward = round(m, 2), annual_reward = round(12*m + welcome_value, 2),
\* net = round(12*m + welcome_value - annual_fee, 2), where
\* m = base*monthly_total + sum of max(rate-base,0)*eligible_spend.
C1_ReturnedRounded ==
    InScoreCard =>
        /\ result.monthly_reward = Round2(StatedMonthlyReward)
        /\ result.annual_reward = Round2(StatedAnnualReward)
        /\ result.net = Round2(StatedNet)

\* The contract's example: base 0.01, one Dining rule 0.03 capped at 200, fee
\* 95, monthly_total 1000, Dining share 0.3 gives 14 a month, 168 a year, net 73.
C1_Witness ==
    /\ InScoreCard
    /\ args.card = Card("card", Pct(1), <<Rule("Dining", Pct(3), Usd(200))>>,
                        <<>>, Usd(95))
    /\ args.monthly_total = Usd(1000)
    /\ DictGet(args.category_mix, "Dining", Zero) = Rat(3, 10)
    /\ result.monthly_reward = Usd(14)
    /\ result.annual_reward = Usd(168)
    /\ result.net = Usd(73)

\* The base reward on a rule's category spend plus the rule's bonus.
EarnedOnCategory(row) ==
    RAdd(RMul(locals.base_rate, row.category_spend), row.bonus_amount)

\* cap*rate + (spend - cap)*base_cashback
BlendedOverCap(row) ==
    RAdd(RMul(row.cap, row.rate),
         RMul(RSub(row.category_spend, row.cap), locals.base_rate))

OverCap(row) == row.cap # NoneNum /\ RLt(row.cap, row.category_spend)

\* C2 as stated: for every rule with a cap and category spend above the cap,
\* eligible_spend = cap and the amount earned on the category is
\* cap*rate + (spend - cap)*base_cashback.
C2_OverflowAtBase ==
    InScoreCard =>
        \A i \in 1..Len(locals.bonus_rows) :
            LET row == locals.bonus_rows[i]
            IN OverCap(row) =>
                   /\ row.eligible_spend = row.cap
                   /\ EarnedOnCategory(row) = BlendedOverCap(row)

\* C2 amended: the same, for a rule whose rate is at least the base rate; for
\* any rule over its cap the eligible spend is the cap.
C2_OverflowAtBaseWhenRateAboveBase ==
    InScoreCard =>
        \A i \in 1..Len(locals.bonus_rows) :
            LET row == locals.bonus_rows[i]
            IN OverCap(row) =>
                   /\ row.eligible_spend = row.cap
                   /\ RLe(locals.base_rate, row.rate) =>
                          EarnedOnCategory(row) = BlendedOverCap(row)

\* A rule paying above base, over a positive cap: Dining 0.03 capped at 200
\* with base 0.01 and 300 of Dining spend earns a bonus of 0.02*200 = 4.
C2_Witness ==
    /\ InScoreCard
    /\ \E i \in 1..Len(locals.bonus_rows) :
           LET row == locals.bonus_rows[i]
           IN /\ OverCap(row)
              /\ row.cap = Usd(200)
              /\ row.category_spend = Usd(300)
              /\ locals.base_rate = Pct(1)
              /\ row.rate = Pct(3)
              /\ row.bonus_amount = Usd(4)
              /\ EarnedOnCategory(row) = Usd(7)

\* The earn rate score_card implies for one category: the monthly reward of
\* a month spent wholly in that category, divided by the spend.
ScoreCardCategoryRate(product, category, spend) ==
    RDiv(ScoreCardLocals(product, <<Item(category, One)>>, spend, 30).monthly_reward,
         spend)

\* C3: for every product, category and positive monthly category spend,
\* earn_percent_for_product returns the rate score_card implies.
C3_EarnRatePathsAgree ==
    (pc = "earn_percent_for_product" /\ RLt(Zero, args.monthly_spend)) =>
        result = ScoreCardCategoryRate(args.product, args.category, args.monthly_spend)

InScoreCatalog == pc = "score_catalog"

ShortCircuit == RLe(args.monthly_total, Zero) \/ args.category_mix = <<>>

\* The position of the card with this slug in the input catalog.
CatalogIndex(slug) == CHOOSE i \in 1..Len(args.cards) : args.cards[i].slug = slug

ResultSlugs == {result[k].slug : k \in 1..Len(result)}

\* The result is ordered by non-increasing net; it holds min(limit, n) entries
\* when limit > 0 and all n otherwise; every entry is the scored dict of one
\* input card, no card twice; and no card left out beats a card kept.
RankedPrefix ==
    LET n == Len(args.cards)
    IN /\ \A k \in 1..(Len(result) - 1) : RLe(result[k + 1].net, result[k].net)
       /\ Len(result) = IF args.limit > 0 /\ args.limit < n THEN args.limit ELSE n
       /\ Cardinality(ResultSlugs) = Len(result)
       /\ \A k \in 1..Len(result) :
              /\ result[k].slug \in Slugs(args.cards)
              /\ result[k] = ScoreCard(args.cards[CatalogIndex(result[k].slug)],
                                       args.category_mix, args.monthly_total,
                                       args.window_days)
       /\ \A i \in 1..n :
              args.cards[i].slug \notin ResultSlugs =>
                  \A k \in 1..Len(result) :
                      RLe(ScoreCard(args.cards[i], args.category_mix,
                                    args.monthly_total, args.window_days).net,
                          result[k].net)

\* C4 as stated: every call of score_catalog returns the scored cards in
\* non-increasing order of net, the first `limit` of them when limit > 0 and
\* all of them when limit <= 0, one scored entry per input card.
C4_RankedAndTruncated == InScoreCatalog => RankedPrefix

\* C4 amended: the same, for a call with a non-empty mix and monthly_total > 0
\* (any other call returns the empty list).
C4_RankedAndTruncatedWhenScored == (InScoreCatalog /\ ~ShortCircuit) => RankedPrefix

\* Three cards ranked with limit 2: the best card, last in the catalog, comes
\* first and the result holds two entries.
C4_Witness ==
    /\ InScoreCatalog
    /\ ~ShortCircuit
    /\ Len(args.cards) = 3
    /\ args.limit = 2
    /\ Len(result) = 2
    /\ result[1].slug = args.cards[3].slug
    /\ RLt(result[2].net, result[1].net)

\* C5: an empty mix or a monthly_total <= 0 gives the empty list, whatever the
\* catalog and the limit.
C5_EmptySignalShortCircuit == (InScoreCatalog /\ ShortCircuit) => result = <<>>

\* An empty mix with a positive monthly_total and a non-empty catalog.
C5_Witness ==
    /\ InScoreCatalog
    /\ args.category_mix = <<>>
    /\ RLt(Zero, args.monthly_total)
    /\ Len(args.cards) = 3
    /\ args.limit = 5
    /\ result = <<>>

\* C6: the order of the result is fixed by the nets and the catalog order alone:
\* of two entries the one with the larger net comes first, and of two entries
\* with equal net the one earlier in the catalog comes first.
C6_StableOrder ==
    InScoreCatalog =>
        \A i, j \in 1..Len(result) :
            i < j =>
                \/ RLt(result[j].net, result[i].net)
                \/ /\ result[i].net = result[j].net
                   /\ CatalogIndex(result[i].slug) < CatalogIndex(result[j].slug)

\* birch precedes amber in the catalog, both have the same net and a third
\* card beats them: the result keeps birch ahead of amber behind that card.
C6_Witness ==
    /\ InScoreCatalog
    /\ Len(result) = 3
    /\ args.cards[1].slug = "birch"
    /\ args.cards[2].slug = "amber"
    /\ result[2].slug = "birch"
    /\ result[3].slug = "amber"
    /\ result[2].net = result[3].net
    /\ RLt(result[2].net, result[1].net)

\* The offer's bonus value, 0 without an offer.
OfferBonus ==
    IF args.card.welcome_offer = <<>> THEN Zero
    ELSE FloatOrZero(args.card.welcome_offer[1].bonus_value_usd)

OfferMinSpend ==
    IF args.card.welcome_offer = <<>> THEN Zero
    ELSE FloatOrZero(args.card.welcome_offer[1].min_spend)

\* The offer's window_days, or the call's window_days when the offer has none.
OfferDays ==
    IF args.card.welcome_offer # <<>> /\ args.card.welcome_offer[1].window_days # <<>>
    THEN args.card.welcome_offer[1].window_days[1]
    ELSE args.window_days

\* bonus_value_usd * min(monthly_total * (window_days / 30) / min_spend, 1)
StatedWelcomeValue ==
    RMul(OfferBonus,
         RMin(RDiv(RMul(args.monthly_total, Rat(OfferDays, 30)), OfferMinSpend), One))

\* C7: the welcome value credited is bonus_value_usd * min(monthly_total *
\* (window_days / 30) / min_spend, 1) when min_spend, monthly_total and the
\* offer window are positive, and it always lies between 0 and bonus_value_usd.
C7_WelcomeValueClamped ==
    InScoreCard =>
        /\ RLe(Zero, locals.welcome_value)
        /\ RLe(locals.welcome_value, OfferBonus)
        /\ (RLt(Zero, OfferMinSpend) /\ RLt(Zero, args.monthly_total) /\ OfferDays > 0)
               => locals.welcome_value = StatedWelcomeValue

\* 1000 a month over a 90-day window is 3000 against a min_spend of 2000: the
\* progress is clamped and the full 200 is credited.
C7_Witness ==
    /\ InScoreCard
    /\ RLt(Zero, OfferMinSpend)
    /\ OfferDays > 0
    /\ RLt(OfferMinSpend, RMul(args.monthly_total, Rat(OfferDays, 30)))
    /\ OfferBonus = Usd(200)
    /\ locals.welcome_value = Usd(200)
    /\ result.breakdown.welcome # <<>>

\* C8: with monthly_total = 0 the monthly and annual reward, every bonus
\* amount and the welcome value are 0 and net = -annual_fee.
C8_ZeroTotalZeroRewards ==
    (InScoreCard /\ args.monthly_total = Zero) =>
        /\ result.monthly_reward = Zero
        /\ result.annual_reward = Zero
        /\ \A i \in 1..Len(result.breakdown.bonuses) :
               /\ result.breakdown.bonuses[i].monthly_amount = Zero
               /\ result.breakdown.bonuses[i].annual_amount = Zero
        /\ locals.welcome_value = Zero
        /\ result.breakdown.welcome = <<>>
        /\ result.net = RSub(Zero, FloatOrZero(args.card.annual_fee))

InAggregate == pc = "aggregate_spend_details"

\* sum over the transactions of max(amount, 0); a transaction without an
\* amount adds nothing.
StatedSpendTotal ==
    RSum([i \in 1..Len(args.transactions) |->
             IF args.transactions[i].amount = NoneNum THEN Zero
             ELSE RMax(args.transactions[i].amount, Zero)])

\* C9: the total of aggregate_spend_details is the sum of max(amount, 0) over
\* the transactions: refunds add nothing and never reduce it.
C9_TotalIsPositiveSpend == InAggregate => result.total = StatedSpendTotal

\* 12.34 and 20.00 spent and 5.00 refunded: the total is 32.34.
C9_Witness ==
    /\ InAggregate
    /\ Len(args.transactions) = 3
    /\ \E i \in 1..3 : args.transactions[i].amount = Usd(-5)
    /\ \E i \in 1..3 : args.transactions[i].amount = Rat(1234, 100)
    /\ result.total = Rat(3234, 100)

InNormalizeMix == pc = "normalize_mix"

\* A raw value counts when it is numeric and > 0.
Counts(value) ==
    value.kind \in {"number", "numeric_string"} /\ RLt(Zero, value.num)

KeptEntries == SelectSeq(args.raw_mix, LAMBDA entry : Counts(entry.value))

KeptSum == RSum([i \in 1..Len(KeptEntries) |-> KeptEntries[i].value.num])

\* C10: for a raw mix with at least one numeric value > 0, normalize_mix maps
\* every kept key to its value over the sum of the kept values, the fractions
\* sum to 1, and the total returned is that sum.
C10_FractionsSumToOne ==
    (InNormalizeMix /\ KeptEntries # <<>>) =>
        /\ Len(result.mix) = Len(KeptEntries)
        /\ \A i \in 1..Len(result.mix) :
               /\ result.mix[i].key = KeptEntries[i].key
               /\ result.mix[i].value = RDiv(KeptEntries[i].value.num, KeptSum)
        /\ RSum([i \in 1..Len(result.mix) |-> result.mix[i].value]) = One
        /\ result.total = KeptSum

\* {Dining: 100, Groceries: -50, Travel: 200}: Groceries is dropped, the mix
\* is {Dining: 1/3, Travel: 2/3} and the total 300.
C10_Witness ==
    /\ InNormalizeMix
    /\ Len(args.raw_mix) = 3
    /\ args.raw_mix[2].value = Number(Usd(-50))
    /\ result.mix = <<Item("Dining", Rat(1, 3)), Item("Travel", Rat(2, 3))>>
    /\ result.total = Usd(300)

\* C11: normalize_mix drops every entry whose value is non-numeric or <= 0:
\* every key of the result is the key of a numeric value > 0 and carries a
\* fraction > 0, no dropped key appears, and when no entry is kept the result
\* is ({}, 0.0).
C11_DropsNonPositive ==
    InNormalizeMix =>
        /\ \A i \in 1..Len(result.mix) :
               /\ RLt(Zero, result.mix[i].value)
               /\ \E j \in 1..Len(args.raw_mix) :
                      /\ args.raw_mix[j].key = result.mix[i].key
                      /\ Counts(args.raw_mix[j].value)
        /\ \A j \in 1..Len(args.raw_mix) :
               ~Counts(args.raw_mix[j].value) => ~HasKey(result.mix, args.raw_mix[j].key)
        /\ KeptEntries = <<>> => result = [mix |-> <<>>, total |-> Zero]

\* {Dining: "n/a", Groceries: -50, Travel: 0}: nothing is kept and the result
\* is ({}, 0.0).
C11_Witness ==
    /\ InNormalizeMix
    /\ args.raw_mix = <<Item("Dining", Text), Item("Groceries", Number(Usd(-50))),
                        Item("Travel", Number(Usd(0)))>>
    /\ result = [mix |-> <<>>, total |-> Zero]

\* Transaction i has an amount > 0.
PositiveTxn(i) ==
    args.transactions[i].amount # NoneNum /\ RLt(Zero, args.transactions[i].amount)

\* The transactions of a merchant, and those of them with an amount > 0.
SeenOf(name) ==
    {i \in 1..Len(args.transactions) : MerchantName(args.transactions[i]) = name}

PositiveOf(name) == {i \in SeenOf(name) : PositiveTxn(i)}

Least(S) == CHOOSE x \in S : \A y \in S : x <= y

\* C12: the merchant rows are built from the transactions with amount > 0
\* alone: there is one row per merchant with such a transaction, its amount is
\* their sum and > 0, its count is their number and >= 1; transaction_count is
\* the number of all transactions, refunds and zero amounts included.
C12_MerchantsFromPositiveOnly ==
    InAggregate =>
        /\ result.transaction_count = Len(args.transactions)
        /\ \A i \in 1..Len(args.transactions) :
               PositiveTxn(i) =>
                   \E k \in 1..Len(result.merchants) :
                       result.merchants[k].name = MerchantName(args.transactions[i])
        /\ \A k \in 1..Len(result.merchants) :
               LET row == result.merchants[k]
               IN /\ RLt(Zero, row.amount)
                  /\ row.count >= 1
                  /\ row.count = Cardinality(PositiveOf(row.name))
                  /\ row.amount =
                         RSum([i \in 1..Len(args.transactions) |->
                                  IF i \in PositiveOf(row.name)
                                  THEN args.transactions[i].amount ELSE Zero])
                  /\ \A j \in 1..Len(result.merchants) :
                         result.merchants[j].name = row.name => j = k

\* A purchase of 20 and a refund of 5 at Corner Mart and a zero amount at
\* Blue Cafe: three transactions scanned, one merchant row of 20 with count 1.
C12_Witness ==
    /\ InAggregate
    /\ result.transaction_count = 3
    /\ \E i \in 1..3 : args.transactions[i] = Txn(Usd(-5), "Groceries", "Corner Mart", "")
    /\ \E i \in 1..3 : args.transactions[i] = Txn(Usd(0), "Travel", "", "Blue Cafe")
    /\ Len(result.merchants) = 1
    /\ result.merchants[1].name = "Corner Mart"
    /\ result.merchants[1].count = 1
    /\ result.merchants[1].amount = Usd(20)

\* The rules of the call whose matcher finds the name, by position.
MatchingRules(name) ==
    {j \in 1..Len(args.category_rules) :
        <<args.category_rules[j].matcher, name>> \in PatternOccurs}

\* The category of the merchant's first transaction with an amount > 0.
TransactionCategory(name) ==
    LET txn == args.transactions[Least(PositiveOf(name))]
    IN IF txn.category = "" THEN "General" ELSE txn.category

\* C13: a merchant row's category is the category of the first rule, in list
\* order, that matches the merchant name; a merchant no rule matches keeps its
\* transaction-level category, "General" when that is missing.
C13_FirstMatchingRuleWins ==
    InAggregate =>
        \A k \in 1..Len(result.merchants) :
            LET row == result.merchants[k]
            IN row.category =
                   IF MatchingRules(row.name) # {}
                   THEN args.category_rules[Least(MatchingRules(row.name))].category
                   ELSE TransactionCategory(row.name)

\* "Blue Cafe" is matched by the first and the second of three rules and takes
\* the first one's category; a merchant without a category that no rule
\* matches is "General".
C13_Witness ==
    /\ InAggregate
    /\ Len(args.category_rules) = 3
    /\ MatchingRules("Blue Cafe") = {1, 2}
    /\ \E k \in 1..Len(result.merchants) :
           /\ result.merchants[k].name = "Blue Cafe"
           /\ result.merchants[k].category = args.category_rules[1].category
    /\ \E k \in 1..Len(result.merchants) :
           /\ MatchingRules(result.merchants[k].name) = {}
           /\ result.merchants[k].category = "General"

\* C14: every category row's pct is its amount over the total when the total
\* is > 0 and 0 when the total is 0; each pct lies in [0, 1] and they sum to 1
\* when the total is > 0.
C14_CategoryShares ==
    InAggregate =>
        /\ \A k \in 1..Len(result.categories) :
               LET row == result.categories[k]
               IN /\ row.pct = IF RLt(Zero, result.total)
                               THEN RDiv(row.amount, result.total) ELSE Zero
                  /\ RLe(Zero, row.pct)
                  /\ RLe(row.pct, One)
        /\ RLt(Zero, result.total) =>
               RSum([k \in 1..Len(result.categories) |-> result.categories[k].pct]) = One

\* 12.34 of Dining, 20.00 of Groceries and a zero amount of Travel: the shares
\* are 2000/3234, 1234/3234 and 0.
C14_Witness ==
    /\ InAggregate
    /\ result.total = Rat(3234, 100)
    /\ Len(result.categories) = 3
    /\ result.categories[1].pct = Rat(2000, 3234)
    /\ result.categories[2].pct = Rat(1234, 3234)
    /\ result.categories[3].pct = Zero

\* Rows in non-increasing order of amount.
NonIncreasing(rows) ==
    \A k \in 1..(Len(rows) - 1) : RLe(rows[k + 1].amount, rows[k].amount)

\* C15 as stated: categories and merchants are each in non-increasing order of
\* amount, and of two merchants with equal amounts the one first seen earlier
\* in the transaction list comes first.
C15_SortedTiesByFirstSeen ==
    InAggregate =>
        /\ NonIncreasing(result.categories)
        /\ NonIncreasing(result.merchants)
        /\ \A i, j \in 1..Len(result.merchants) :
               (i < j /\ result.merchants[i].amount = result.merchants[j].amount) =>
                   Least(SeenOf(result.merchants[i].name))
                       < Least(SeenOf(result.merchants[j].name))

\* C15 amended: the same, where a merchant is first seen at its first
\* transaction with an amount > 0 (a refund or a zero amount does not enter
\* the merchant).
C15_SortedTiesByFirstPositive ==
    InAggregate =>
        /\ NonIncreasing(result.categories)
        /\ NonIncreasing(result.merchants)
        /\ \A i, j \in 1..Len(result.merchants) :
               (i < j /\ result.merchants[i].amount = result.merchants[j].amount) =>
                   Least(PositiveOf(result.merchants[i].name))
                       < Least(PositiveOf(result.merchants[j].name))

\* Corner Mart is refunded first, then 20 is spent at Blue Cafe and 20 at
\* Corner Mart: the two rows tie and Blue Cafe, entered first, stays first.
C15_Witness ==
    /\ InAggregate
    /\ Len(args.transactions) = 3
    /\ MerchantName(args.transactions[1]) = "Corner Mart"
    /\ ~PositiveTxn(1)
    /\ Len(result.merchants) = 2
    /\ result.merchants[1].name = "Blue Cafe"
    /\ result.merchants[2].name = "Corner Mart"
    /\ result.merchants[1].amount = result.merchants[2].amount

InScoreCatalogCall == pc \in {"score_catalog", "score_catalog_raised"}

WellFormed(cards) == SelectSeq(cards, LAMBDA card : ~ScoreCardRaises(card))

\* C18: a card whose reward rate cannot be coerced to a number is skipped:
\* score_catalog still returns, and its result is the ranking of the other
\* cards.
C18_MalformedCardSkipped ==
    InScoreCatalogCall =>
        /\ pc = "score_catalog"
        /\ result = ScoreCatalog(WellFormed(args.cards), args.category_mix,
                                 args.monthly_total, args.window_days, args.limit)

\* The recommendations handler got past its request checks.
InRecommendations == pc = "recommendations" /\ locals # <<>>

\* The user's spend in the window: the stored amounts above 0 of the
\* transactions that are not refunds.
WindowTotal ==
    RSum([i \in 1..Len(args.docs) |->
             IF args.docs[i].status = "refund" \/ args.docs[i].amount = NoneNum
             THEN Zero ELSE RMax(args.docs[i].amount, Zero)])

\* (window_total / window_days) * 30 when window_total > 0, 1000 when it is 0
\* and the mix is not empty, 0 otherwise.
StatedMonthlyTotal ==
    IF RLt(Zero, WindowTotal)
    THEN RMul(RDiv(WindowTotal, Int2Rat(locals.window_days)), Int2Rat(30))
    ELSE IF locals.normalized_mix # <<>> THEN Int2Rat(1000)
    ELSE Zero

\* C16: for a request without monthly_spend the monthly total is
\* (window_total / window_days) * 30 if window_total > 0, 1000 if window_total
\* is 0 and the mix is not empty, and 0 otherwise; it is the total reported and
\* the one the catalog is scored with.
C16_MonthlyTotalFromWindow ==
    (InRecommendations /\ args.payload.monthly_spend = NoneNum) =>
        /\ locals.monthly_total = StatedMonthlyTotal
        /\ result.status = 200 =>
               /\ result.monthly_spend = Round2(StatedMonthlyTotal)
               /\ locals.catalog_cards # <<>> =>
                      result.cards = ScoreCatalog(locals.catalog_cards,
                                                  locals.normalized_mix,
                                                  StatedMonthlyTotal,
                                                  locals.window_days, locals.limit)

\* 2700 spent over the default window of 90 days: the catalog is scored with a
\* monthly total of 900.
C16_Witness ==
    /\ InRecommendations
    /\ args.payload.monthly_spend = NoneNum
    /\ args.payload.window = <<>>
    /\ WindowTotal = Usd(2700)
    /\ locals.monthly_total = Usd(900)
    /\ result.status = 200
    /\ result.monthly_spend = Usd(900)
    /\ result.cards # <<>>
    /\ result.cards[1].breakdown.monthly_spend = Usd(900)

\* A handler that calls score_catalog is past its request checks.
InScoringRoute == pc \in {"recommendations", "rewards_compare"} /\ locals # <<>>

\* C17: on the /recommendations and the /rewards/compare route every card
\* passed to score_catalog, and so every card returned, has active == true.
C17_OnlyActiveCardsScored ==
    InScoringRoute =>
        /\ \A i \in 1..Len(locals.catalog_cards) : locals.catalog_cards[i].active
        /\ result.status = 200 =>
               \A k \in 1..Len(result.cards) : result.cards[k].active

\* score_card's locals for the same call on the card stripped of its offer.
WithoutOffer ==
    ScoreCardLocals([args.card EXCEPT !.welcome_offer = <<>>], args.category_mix,
                    args.monthly_total, args.window_days)

\* C20: the welcome value enters annual_reward once and monthly_reward never:
\* the monthly reward computed (and returned) for a card is that of the card
\* without its offer, and its annual reward is the annual reward without the
\* offer plus the welcome value.
C20_WelcomeOnceInAnnual ==
    InScoreCard =>
        /\ locals.monthly_reward = WithoutOffer.monthly_reward
        /\ result.monthly_reward = Round2(WithoutOffer.monthly_reward)
        /\ locals.annual_reward = RAdd(WithoutOffer.annual_reward, locals.welcome_value)

\* 150 a month over 90 days is 450 of the 2000 to spend: 45 of the 200 are
\* credited, on top of a non-zero annual reward.
C20_Witness ==
    /\ InScoreCard
    /\ args.card.welcome_offer = Offer(Usd(200), Usd(2000), <<90>>)
    /\ args.monthly_total = Usd(150)
    /\ locals.welcome_value = Usd(45)
    /\ RLt(Zero, WithoutOffer.annual_reward)
    /\ locals.annual_reward = RAdd(WithoutOffer.annual_reward, Usd(45))

\* What the call of a caller that has returned yields when run alone on the
\* shared inputs.
RunAlone(t) ==
    CASE locals[t].fn = "score_catalog" ->
             ScoreCatalog(args.cards, args.category_mix, args.monthly_total,
                          args.window_days, args.limit)
      [] locals[t].fn = "score_card" ->
             ScoreCard(args.cards[1], args.category_mix, args.monthly_total,
                       args.window_days)
      [] locals[t].fn = "aggregate_spend_details" ->
             AggregateSpendDetails(args.transactions, <<>>)
      [] locals[t].fn = "normalize_mix" -> NormalizeMix(args.raw_mix)

ResultsAsAlone == \A t \in Threads : pc[t] = "done" => result[t] = RunAlone(t)

\* C19: no step of score_card, score_catalog, normalize_mix or
\* aggregate_spend_details changes the cards, the mix, the catalog list or its
\* order, or the transaction list, and a call running next to another returns
\* what it returns when run alone.
C19_InputsOnlyRead == [][args' = args]_vars /\ []ResultsAsAlone

\* One caller has ranked the catalog into an order other than the catalog's
\* while the other is part-way through scoring the same list.
C19_Witness ==
    /\ pc[1] = "done"
    /\ locals[1].fn = "score_catalog"
    /\ Len(result[1]) = 2
    /\ result[1][1].slug = args.cards[2].slug
    /\ result[1][2].slug = args.cards[1].slug
    /\ pc[2] = "scoring"
    /\ Len(locals[2].scored) = 1

\* C21: a rule's bonus is max(rate - base_cashback, 0) times its eligible
\* spend, which is 0 for a rate at or below the base rate; the monthly reward
\* is the base reward on the whole monthly total, counted once, plus the
\* bonuses, and so never less than base_cashback * monthly_total.
C21_BonusIncrementalOverBase ==
    InScoreCard =>
        LET base == FloatOrZero(args.card.base_cashback)
            base_reward == RMul(base, args.monthly_total)
        IN /\ \A i \in 1..Len(locals.bonus_rows) :
                  LET row == locals.bonus_rows[i]
                  IN /\ row.bonus_amount =
                            RMul(RMax(RSub(row.rate, base), Zero), row.eligible_spend)
                     /\ RLe(row.rate, base) => row.bonus_amount = Zero
                     /\ RLe(Zero, row.bonus_amount)
           /\ RLe(base_reward, locals.monthly_reward)
           /\ RSub(locals.monthly_reward,
                   RSum([i \in 1..Len(locals.bonus_rows) |->
                            locals.bonus_rows[i].bonus_amount])) = base_reward

\* A Dining rule at 0.01 on a card with base 0.02 and 300 of Dining spend: the
\* rule adds nothing and the month earns 0.02 * 1000 = 20.
C21_Witness ==
    /\ InScoreCard
    /\ args.card.base_cashback = Pct(2)
    /\ Len(locals.bonus_rows) = 1
    /\ locals.bonus_rows[1].rate = Pct(1)
    /\ locals.bonus_rows[1].category_spend = Usd(300)
    /\ locals.bonus_rows[1].bonus_amount = Zero
    /\ locals.monthly_reward = Usd(20)

\* The positions of the highlights of one kind.
OfKind(kind) ==
    {i \in 1..Len(locals.highlights) : locals.highlights[i].kind = kind}

\* The bonus details with a positive monthly amount, in the card's rule order.
PositiveBonuses ==
    SelectSeq(result.breakdown.bonuses, LAMBDA bonus: RLt(Zero, bonus.monthly_amount))

\* How often a detail occurs in a list of details.
Occurrences(details, bonus) ==
    Cardinality({i \in 1..Len(details) : details[i] = bonus})

\* The bonus highlights come first, one per bonus detail with a positive
\* monthly amount, in non-increasing order of that amount; one intro-bonus
\* highlight follows exactly when a welcome value above 0 was computed; a
\* base-rate highlight, if any, is single and last.
HighlightsInOrder ==
    LET h == locals.highlights
        n == Cardinality(OfKind("bonus"))
        sorted_positive == SelectSeq(locals.sorted_bonuses,
                                     LAMBDA bonus: RLt(Zero, bonus.monthly_amount))
    IN /\ OfKind("bonus") = 1..n
       /\ n = Len(PositiveBonuses)
       /\ Len(sorted_positive) = n
       /\ \A i \in 1..n :
              /\ Occurrences(sorted_positive, sorted_positive[i])
                     = Occurrences(PositiveBonuses, sorted_positive[i])
              /\ h[i].category = sorted_positive[i].category
              /\ h[i].rate = Fixed(RMul(sorted_positive[i].rate, Int2Rat(100)), 10)
              /\ h[i].amount = Fixed(sorted_positive[i].eligible_spend_monthly, 1)
       /\ \A i \in 1..(n - 1) :
              RLe(sorted_positive[i + 1].monthly_amount, sorted_positive[i].monthly_amount)
       /\ OfKind("intro") = IF RLt(Zero, locals.welcome_value) THEN {n + 1} ELSE {}
       /\ OfKind("base") \subseteq {Len(h)}
       /\ result.highlights = h

\* C22 as stated: the bonus and intro-bonus highlights are as above, and the
\* single base-rate highlight is present whenever there is no bonus highlight
\* and base_rate > 0 and monthly_total > 0, also next to an intro-bonus
\* highlight.
C22_BaseHighlightWithoutBonus ==
    InScoreCard =>
        /\ HighlightsInOrder
        /\ (OfKind("bonus") = {} /\ RLt(Zero, locals.base_rate)
                /\ RLt(Zero, args.monthly_total))
               => Cardinality(OfKind("base")) = 1

\* C22: the bonus and intro-bonus highlights are as above, and the single
\* base-rate highlight is present exactly when there is neither a bonus nor an
\* intro-bonus highlight and base_rate > 0 and monthly_total > 0.
C22_BaseHighlightOnlyWhenEmpty ==
    InScoreCard =>
        /\ HighlightsInOrder
        /\ Cardinality(OfKind("base")) =
               IF /\ OfKind("bonus") = {} /\ OfKind("intro") = {}
                  /\ RLt(Zero, locals.base_rate) /\ RLt(Zero, args.monthly_total)
               THEN 1 ELSE 0

\* A 1% card without a paying rule and with a 200 offer, at 1000 a month: the
\* intro-bonus highlight is the only highlight.
C22_Witness ==
    /\ InScoreCard
    /\ locals.base_rate = Pct(1)
    /\ args.monthly_total = Usd(1000)
    /\ Len(locals.highlights) = 1
    /\ locals.highlights[1].kind = "intro"
    /\ locals.highlights[1].amount = 200

\* A card whose second rule pays more than its first: the highlights list the
\* second rule first.
C22_WitnessReordered ==
    /\ InScoreCard
    /\ Len(PositiveBonuses) = 2
    /\ RLt(PositiveBonuses[1].monthly_amount, PositiveBonuses[2].monthly_amount)
    /\ locals.highlights[1].category = PositiveBonuses[2].category
    /\ locals.highlights[2].category = PositiveBonuses[1].category
    /\ PositiveBonuses[1].category # PositiveBonuses[2].category

\* C23: an offer with bonus_value_usd > 0 and no gating signal (min_spend 0 or
\* missing, or an offer window of 0) is credited in full: the welcome value is
\* bonus_value_usd and the annual reward carries all of it.
C23_UngatedOfferInFull ==
    (/\ InScoreCard
     /\ args.card.welcome_offer # <<>>
     /\ RLt(Zero, OfferBonus)
     /\ (OfferMinSpend = Zero \/ OfferDays = 0)) =>
        /\ locals.welcome_value = OfferBonus
        /\ locals.annual_reward =
               RAdd(RMul(locals.monthly_reward, Int2Rat(MonthsPerYear)), OfferBonus)
        /\ result.breakdown.welcome # <<>>
        /\ result.breakdown.welcome[1].value = Round2(OfferBonus)

\* A 200 offer with min_spend 2000 and no window of its own, scored with a
\* window of 0 days at 1000 a month: the full 200 is credited.
C23_Witness ==
    /\ InScoreCard
    /\ args.card.welcome_offer = Offer(Usd(200), Usd(2000), <<>>)
    /\ args.window_days = 0
    /\ args.monthly_total = Usd(1000)
    /\ locals.welcome_value = Usd(200)

InScoreSingle == pc = "score_single_transaction"

\* int(amount_cents * base_rate): the reward of the base-rate branch.
BaseRateReward == Trunc(RMul(Int2Rat(args.amount_cents), args.card.base_rate))

C24_WitnessCapUsed ==
    /\ InScoreSingle
    /\ locals.branch = "rotating"
    /\ locals.rem_cents = 0
    /\ args.amount_cents = 1000
    /\ result.reward = 10

InMonthEarnings == pc = "compute_month_earnings"

RuleCategories == {args.card.rewards[i].category : i \in 1..Len(args.card.rewards)}

TransactionCategories ==
    {args.transactions[i].category : i \in 1..Len(args.transactions)}

\* The mix and total compute_user_mix derives from the month's transactions.
DerivedMix == ComputeUserMix(args.transactions)

\* C28: for a card whose rule categories are exactly the categories of a
\* month of positive-amount transactions, total_cashback of
\* compute_month_earnings equals the monthly_reward score_card returns for the
\* mix and total derived from those transactions.
C28_EarningsAgreeWithScoreCard ==
    (/\ InMonthEarnings
     /\ args.transactions # <<>>
     /\ \A i \in 1..Len(args.transactions) : RLt(Zero, args.transactions[i].amount)
     /\ RuleCategories = TransactionCategories) =>
        /\ ~ScoreCardRaises(args.card)
        /\ result.total_cashback =
               ScoreCard(args.card, DerivedMix.mix, DerivedMix.total,
                         DaysPerMonth).monthly_reward

\* The two agree on a card with one rule per category.
C28_AgreeOnDistinctRules ==
    /\ InMonthEarnings
    /\ Len(args.card.rewards) = 2
    /\ RuleCategories = {"Dining", "Groceries"}
    /\ TransactionCategories = {"Dining", "Groceries"}
    /\ Len(args.transactions) = 3
    /\ result.total_cashback =
           ScoreCard(args.card, DerivedMix.mix, DerivedMix.total,
                     DaysPerMonth).monthly_reward

\* Two Dining rules at 3% on a 1% card, the first capped at 200, and 300 of
\* Dining spend: compute_month_earnings pays the first rule only, 3 + 4 = 7,
\* while score_card pays both, 3 + 4 + 6 = 13.
C28_DuplicateRulesDiverge ==
    /\ InMonthEarnings
    /\ args.card.rewards = <<Rule("Dining", Pct(3), Usd(200)),
                             Rule("Dining", Pct(3), NoneNum)>>
    /\ TransactionCategories = {"Dining"}
    /\ result.total_cashback = Usd(7)
    /\ ScoreCard(args.card, DerivedMix.mix, DerivedMix.total,
                 DaysPerMonth).monthly_reward = Usd(13)

MandateStatus(db, mandate_id) == db.mandates[mandate_id].status

\* C25: under approve, decline and execute requests of the owner, one after
\* another, a mandate's status turns executed only in an execute request for
\* that mandate made while it is approved, and an executed mandate stays
\* executed.
C25_ExecutedOnlyFromApprovedAndFinal ==
    [][\A mandate_id \in 1..Len(database.mandates) :
           /\ MandateStatus(database, mandate_id) = "executed"
                  => MandateStatus(database', mandate_id) = "executed"
           /\ (/\ MandateStatus(database, mandate_id) # "executed"
               /\ MandateStatus(database', mandate_id) = "executed")
                  => /\ pc' = "ap2_execute_mandate"
                     /\ args'.mandate_id = mandate_id
                     /\ MandateStatus(database, mandate_id) = "approved"]_vars

\* A decline request for an executed mandate was refused.
C25_Witness ==
    /\ pc = "ap2_decline_mandate"
    /\ result = Response(400, "")
    /\ args.mandate_id \in 1..Len(database.mandates)
    /\ MandateStatus(database, args.mandate_id) = "executed"

\* C26: however two execute requests for the mandate interleave, the user
\* holds at most one credit_card account per card product.
C26_OneAccountPerProduct ==
    \A product_slug \in database.credit_cards :
        Cardinality(AccountsOf(database, product_slug)) <= 1

\* Both requests answered "executed" and the user holds two accounts of the
\* product.
C26_TwoAccounts ==
    /\ \A t \in Threads : pc[t] = "done" /\ result[t] = Response(200, "executed")
    /\ Cardinality(AccountsOf(database, "amber")) = 2

\* The applications of a slug whose status is started, submitted or approved.
LiveApplications(db, product_slug) ==
    {i \in 1..Len(db.applications) :
        /\ db.applications[i].product_slug = product_slug
        /\ db.applications[i].status \in {"started", "submitted", "approved"}}

\* C27: after any sequence of start and approve requests of the user, each
\* slug has at most one application that is started, submitted or approved,
\* and a start request for a slug that has one inserts nothing and answers
\* with its id and status.
C27_OneLiveApplicationPerSlug ==
    /\ [](\A product_slug \in database.credit_cards :
              Cardinality(LiveApplications(database, product_slug)) <= 1)
    /\ [][(/\ pc' = "start_application"
           /\ LiveApplications(database, StripSlug(args'.slug)) # {})
              => /\ database' = database
                 /\ \E i \in LiveApplications(database, StripSlug(args'.slug)) :
                        result' = [code |-> 200, id |-> i,
                                   status |-> database.applications[i].status]]_vars

\* A second start request for amber, after the application was approved, got
\* the application's id and the status approved.
C27_Witness ==
    /\ pc = "start_application"
    /\ StripSlug(args.slug) = "amber"
    /\ result.code = 200
    /\ result.status = "approved"
    /\ Cardinality(LiveApplications(database, "amber")) = 1
    /\ Len(database.applications) = 3

C29_TwoEmails ==
    /\ database.outbox = 2
    /\ \A t \in Threads : args[t] = 1 /\ pc[t] = "ready" /\ Len(result[t]) = 1
    /\ database.budgets # <<>>
    /\ database.budgets[1].notified

UsersOf(auth0_id) ==
    {i \in 1..Len(database.users) : database.users[i].auth0_id = auth0_id}

OneDocumentPerSubject ==
    \A i, j \in 1..Len(database.users) :
        database.users[i].auth0_id = database.users[j].auth0_id => i = j

====
